---- MODULE Spec2Model ----
(***************************************************************************)
(* Model of the thumbnail generation service: the POST /api/generate       *)
(* handler (app/api/generate/route.ts), the model registry                 *)
(* (lib/modelRegistry.ts), the pricing table (lib/costing.ts) and the log  *)
(* store reached through prisma (tables RequestLog, RequestCostLineItem).  *)
(*                                                                         *)
(* Conventions                                                             *)
(*  - a JS string is a TLA+ string when only its identity matters          *)
(*    (provider, model, stage names) and a sequence of one-character       *)
(*    strings when the code looks inside it (title, concept: trim());      *)
(*  - a nullable value is a sequence of length <= 1: <<>> is null,         *)
(*    <<v>> is v;                                                          *)
(*  - money is counted in micro-dollars (1e-6 USD), the unit usd() rounds  *)
(*    to; rates are held in hundredths of a dollar per million tokens;     *)
(*  - Date.now() - startedAt is counted in awaits completed by the request;*)
(*  - every awaited store operation and vendor call may fail; a failed     *)
(*    store operation leaves the tables unchanged.                         *)
(*                                                                         *)
(* Two profiles are explored.  "single" runs one request over the full     *)
(* input space (forms, configurations, environments, vendor answers).      *)
(* "concurrent" interleaves NumRequests requests, every await being a      *)
(* scheduling point, over a reduced input space with all keys set.         *)
(* LibSpec calls the exported and helper functions directly, one call per  *)
(* behaviour, over bounded sets of arguments.                              *)
(***************************************************************************)
EXTENDS Integers, Sequences, FiniteSets, Bags, TLC

(***************************************************************************)
(* Bounds of the exploration.                                              *)
(***************************************************************************)
\* number of requests handled concurrently in the concurrent profile
NumRequests == 2
\* a vendor reports input and output token counts in 0..MaxTokens
MaxTokens == 1

None == <<>>
Some(v) == <<v>>

(***************************************************************************)
(* lib/modelRegistry.ts                                                    *)
(***************************************************************************)
Providers == {"openai", "gemini", "anthropic"}

getApiVendor(provider) ==
  IF provider = "gemini" THEN "google" ELSE provider

\* apiModel = "" stands for an entry without the apiModel override
TEXT_MODELS ==
  << [id |-> "gpt-5.2",          provider |-> "openai",    kind |-> "text", enabled |-> TRUE, apiModel |-> ""],
     [id |-> "gpt-5.1",          provider |-> "openai",    kind |-> "text", enabled |-> TRUE, apiModel |-> ""],
     [id |-> "gpt-4.1-mini",     provider |-> "openai",    kind |-> "text", enabled |-> TRUE, apiModel |-> ""],
     [id |-> "gemini-2.5-pro",   provider |-> "gemini",    kind |-> "text", enabled |-> TRUE, apiModel |-> ""],
     [id |-> "gemini-2.5-flash", provider |-> "gemini",    kind |-> "text", enabled |-> TRUE, apiModel |-> ""],
     [id |-> "claude-sonnet",    provider |-> "anthropic", kind |-> "text", enabled |-> TRUE,
      apiModel |-> "claude-3-5-sonnet-latest"],
     [id |-> "claude-haiku",     provider |-> "anthropic", kind |-> "text", enabled |-> TRUE,
      apiModel |-> "claude-3-5-haiku-latest"] >>

IMAGE_MODELS ==
  << [id |-> "gpt-image-1-mini",       provider |-> "openai", kind |-> "image", enabled |-> TRUE, apiModel |-> ""],
     [id |-> "gpt-image-1",            provider |-> "openai", kind |-> "image", enabled |-> TRUE, apiModel |-> ""],
     [id |-> "gemini-2.5-flash-image", provider |-> "gemini", kind |-> "image", enabled |-> TRUE, apiModel |-> ""] >>

defaultConfig ==
  [textProvider  |-> "openai", textModel  |-> "gpt-4.1-mini",
   imageProvider |-> "openai", imageModel |-> "gpt-image-1-mini"]

ConfigFields == {"textProvider", "textModel", "imageProvider", "imageModel"}

isValidTextModel(provider, model) ==
  \E i \in DOMAIN TEXT_MODELS :
     /\ TEXT_MODELS[i].provider = provider
     /\ TEXT_MODELS[i].id = model
     /\ TEXT_MODELS[i].enabled

isValidImageModel(provider, model) ==
  \E i \in DOMAIN IMAGE_MODELS :
     /\ IMAGE_MODELS[i].provider = provider
     /\ IMAGE_MODELS[i].id = model
     /\ IMAGE_MODELS[i].enabled

\* resolveApiModel looking the id up without comparing the provider
resolveApiModel_AnyProvider(provider, kind, id) ==
  LET list == IF kind = "text" THEN TEXT_MODELS ELSE IMAGE_MODELS
      hits == { i \in DOMAIN list :
                  /\ list[i].enabled
                  /\ list[i].kind = kind
                  /\ list[i].id = id }
  IN  IF hits = {} THEN id
      ELSE LET first == CHOOSE i \in hits : \A j \in hits : i <= j
           IN  IF list[first].apiModel # "" THEN list[first].apiModel ELSE id

\* list.find(...): the first matching entry; found?.apiModel || id
resolveApiModel(provider, kind, id) ==
  LET list == IF kind = "text" THEN TEXT_MODELS ELSE IMAGE_MODELS
      hits == { i \in DOMAIN list :
                  /\ list[i].enabled
                  /\ list[i].provider = provider
                  /\ list[i].kind = kind
                  /\ list[i].id = id }
  IN  IF hits = {} THEN id
      ELSE LET first == CHOOSE i \in hits : \A j \in hits : i <= j
           IN  IF list[first].apiModel # "" THEN list[first].apiModel ELSE id

\* { ...defaultConfig, ...(input || {}) }: input is a record over a subset of
\* the config fields (the parsed engineConfig), or <<>> for null / {} .
MergeConfig(input) ==
  [ f \in ConfigFields |-> IF f \in DOMAIN input THEN input[f] ELSE defaultConfig[f] ]

\* a variant that answers any invalid pair by resetting the whole
\* configuration to the default
normalizeEngineConfig_ResetAll(input) ==
  LET merged == MergeConfig(input)
  IN  IF /\ isValidTextModel(merged.textProvider, merged.textModel)
         /\ merged.imageProvider # "anthropic"
         /\ isValidImageModel(merged.imageProvider, merged.imageModel)
        THEN merged
        ELSE defaultConfig

\* normalizeEngineConfig without its two image repairs (lines 226-236 dropped)
normalizeEngineConfig_NoImageRepair(input) ==
  LET merged == MergeConfig(input)
  IN  IF ~ isValidTextModel(merged.textProvider, merged.textModel)
        THEN [merged EXCEPT !.textProvider = defaultConfig.textProvider,
                            !.textModel    = defaultConfig.textModel]
        ELSE merged

normalizeEngineConfig(input) ==
  LET merged == MergeConfig(input)
      m1 == IF ~ isValidTextModel(merged.textProvider, merged.textModel)
              THEN [merged EXCEPT !.textProvider = defaultConfig.textProvider,
                                  !.textModel    = defaultConfig.textModel]
              ELSE merged
      m2 == IF m1.imageProvider = "anthropic"
              THEN [m1 EXCEPT !.imageProvider = defaultConfig.imageProvider,
                              !.imageModel    = defaultConfig.imageModel]
              ELSE m1
      m3 == IF ~ isValidImageModel(m2.imageProvider, m2.imageModel)
              THEN [m2 EXCEPT !.imageProvider = defaultConfig.imageProvider,
                              !.imageModel    = defaultConfig.imageModel]
              ELSE m2
  IN  m3

(***************************************************************************)
(* lib/costing.ts                                                          *)
(***************************************************************************)
\* rates in hundredths of a dollar per million tokens: 0.7 USD/M is 70
TEXT_RATES ==
  [ openai    |-> [ gpt52      |-> [inputPerM |-> 350, outputPerM |-> 2800],
                    gpt51      |-> [inputPerM |-> 250, outputPerM |-> 2000],
                    gpt41mini  |-> [inputPerM |-> 70,  outputPerM |-> 280] ],
    google    |-> [ gemini25pro   |-> [inputPerM |-> 125, outputPerM |-> 1000],
                    gemini25flash |-> [inputPerM |-> 30,  outputPerM |-> 250] ],
    anthropic |-> [ sonnet |-> [inputPerM |-> 300, outputPerM |-> 1500],
                    haiku  |-> [inputPerM |-> 80,  outputPerM |-> 400] ] ]

\* names every object literal inherits from Object.prototype: table[name] is
\* a function (truthy) for them although the table has no such row
ObjectPrototypeNames == { "toString", "constructor" }

\* the number NaN; a cost is never negative, so -1 is free to stand for it
NaN == -1

IsNaN(n) == n = NaN

\* the key of a wire model name in the rate tables, "" when the lookup
\* TEXT_RATES[vendor]?.[apiModel] is undefined, "inherited" when it yields a
\* member of Object.prototype
RateKey(vendor, apiModel) ==
  CASE vendor \in DOMAIN TEXT_RATES /\ apiModel \in ObjectPrototypeNames -> "inherited"
    [] vendor = "openai"    /\ apiModel = "gpt-5.2"                  -> "gpt52"
    [] vendor = "openai"    /\ apiModel = "gpt-5.1"                  -> "gpt51"
    [] vendor = "openai"    /\ apiModel = "gpt-4.1-mini"             -> "gpt41mini"
    [] vendor = "google"    /\ apiModel = "gemini-2.5-pro"           -> "gemini25pro"
    [] vendor = "google"    /\ apiModel = "gemini-2.5-flash"         -> "gemini25flash"
    [] vendor = "anthropic" /\ apiModel = "claude-3-5-sonnet-latest" -> "sonnet"
    [] vendor = "anthropic" /\ apiModel = "claude-3-5-haiku-latest"  -> "haiku"
    [] OTHER -> ""

\* prices in micro-dollars per image; 0 in a tier stands for an unpriced tier
IMAGE_PER_IMAGE ==
  [ openai    |-> [ mini |-> [low |-> 5000,  medium |-> 11000, high |-> 36000,  fixedPerImage |-> 0],
                    full |-> [low |-> 11000, medium |-> 42000, high |-> 167000, fixedPerImage |-> 0] ],
    google    |-> [ flashimage |-> [low |-> 0, medium |-> 0, high |-> 0, fixedPerImage |-> 39000] ],
    anthropic |-> [ none |-> [low |-> 0, medium |-> 0, high |-> 0, fixedPerImage |-> 0] ] ]

ImageKey(vendor, apiModel) ==
  CASE vendor = "openai" /\ apiModel = "gpt-image-1-mini"       -> "mini"
    [] vendor = "openai" /\ apiModel = "gpt-image-1"            -> "full"
    [] vendor = "google" /\ apiModel = "gemini-2.5-flash-image" -> "flashimage"
    [] OTHER -> ""

\* usd(n) = Math.round(n * 1e6) / 1e6, on an amount given in hundredths of a
\* micro-dollar: the result in micro-dollars, halves rounded up
usd(hundredths) == (hundredths + 50) \div 100

\* an inherited member is truthy and has no inputPerM / outputPerM: the
\* products with undefined are NaN, and so is usd(NaN)
calcTextCostUsd(vendor, apiModel, usage) ==
  LET k == RateKey(vendor, apiModel)
  IN  IF k = "" THEN 0
      ELSE IF k = "inherited" THEN NaN
      ELSE LET rate == TEXT_RATES[vendor][k]
           IN  usd(usage.input * rate.inputPerM + usage.output * rate.outputPerM)

\* calcImageCostUsd charging the output tokens of a google image call as well
calcImageCostUsd_ChargeOutput(vendor, apiModel, imageCount, quality, usage) ==
  IF vendor = "openai" THEN
    LET k   == ImageKey(vendor, apiModel)
        per == IF k = "" THEN 0
               ELSE IF IMAGE_PER_IMAGE.openai[k][quality] # 0
                      THEN IMAGE_PER_IMAGE.openai[k][quality]
                      ELSE IMAGE_PER_IMAGE.openai[k].low
    IN  usd(per * imageCount * 100)
  ELSE IF vendor = "google" THEN
    LET k      == ImageKey(vendor, apiModel)
        perOut == IF k = "" THEN 0 ELSE IMAGE_PER_IMAGE.google[k].fixedPerImage
        rate   == TEXT_RATES.google.gemini25flash
        inTok  == IF usage = None THEN 0 ELSE usage[1].input
        outTok == IF usage = None THEN 0 ELSE usage[1].output
    IN  usd(inTok * rate.inputPerM + outTok * rate.outputPerM + perOut * imageCount * 100)
  ELSE 0

calcImageCostUsd(vendor, apiModel, imageCount, quality, usage) ==
  IF vendor = "openai" THEN
    LET k   == ImageKey(vendor, apiModel)
        per == IF k = "" THEN 0
               ELSE IF IMAGE_PER_IMAGE.openai[k][quality] # 0
                      THEN IMAGE_PER_IMAGE.openai[k][quality]
                      ELSE IMAGE_PER_IMAGE.openai[k].low
    IN  usd(per * imageCount * 100)
  ELSE IF vendor = "google" THEN
    LET k         == ImageKey(vendor, apiModel)
        perOut    == IF k = "" THEN 0 ELSE IMAGE_PER_IMAGE.google[k].fixedPerImage
        inputRate == TEXT_RATES.google.gemini25flash.inputPerM
        inTok     == IF usage = None THEN 0 ELSE usage[1].input
    IN  usd(inTok * inputRate + perOut * imageCount * 100)
  ELSE 0

(***************************************************************************)
(* Strings the handler looks inside.                                       *)
(***************************************************************************)
RECURSIVE TrimStart(_)
TrimStart(s) == IF s # <<>> /\ Head(s) = " " THEN TrimStart(Tail(s)) ELSE s

RECURSIVE TrimEnd(_)
TrimEnd(s) ==
  IF s # <<>> /\ s[Len(s)] = " " THEN TrimEnd(SubSeq(s, 1, Len(s) - 1)) ELSE s

\* String.prototype.trim
Trim(s) == TrimEnd(TrimStart(s))

(***************************************************************************)
(* Model output text and safeParseJson.  A text is a sequence of tokens:   *)
(* "{" and "}", "note" (prose around the JSON), "null" (the JSON literal)  *)
(* and member tokens, each standing for one "key": value pair.             *)
(***************************************************************************)
MemberTokens == {"olc=summary", "olc=blank", "immutable=list"}

JsNull == [type |-> "null", one_line_concept |-> None, immutable_elements |-> None]

\* the value of a member list: the last occurrence of a key wins
RECURSIVE ObjectOf(_, _)
ObjectOf(members, acc) ==
  IF members = <<>> THEN acc
  ELSE LET m == Head(members)
           next == CASE m = "olc=summary"    -> [acc EXCEPT !.one_line_concept = Some(<<"k">>)]
                     [] m = "olc=blank"      -> [acc EXCEPT !.one_line_concept = Some(<<" ">>)]
                     [] m = "immutable=list" -> [acc EXCEPT !.immutable_elements = Some(<<"logo">>)]
       IN  ObjectOf(Tail(members), next)

EmptyObject == [type |-> "object", one_line_concept |-> None, immutable_elements |-> None]

\* JSON.parse: [ok |-> FALSE] stands for the SyntaxError it throws
JSONparse(text) ==
  IF text = <<"null">> THEN [ok |-> TRUE, value |-> JsNull]
  ELSE IF /\ Len(text) >= 2
          /\ text[1] = "{"
          /\ text[Len(text)] = "}"
          /\ \A i \in 2 .. Len(text) - 1 : text[i] \in MemberTokens
       THEN [ok |-> TRUE, value |-> ObjectOf(SubSeq(text, 2, Len(text) - 1), EmptyObject)]
       ELSE [ok |-> FALSE, value |-> JsNull]

\* text.match(/\{[\s\S]*\}/): greedy, from the first "{" to the last "}"
BraceMatch(text) ==
  LET opens  == { i \in DOMAIN text : text[i] = "{" }
      first  == CHOOSE i \in opens : \A j \in opens : i <= j
      closes == { i \in DOMAIN text : text[i] = "}" /\ i > first }
      last   == CHOOSE i \in closes : \A j \in closes : j <= i
  IN  IF opens = {} \/ closes = {} THEN None
      ELSE Some(SubSeq(text, first, last))

safeParseJson(text) ==
  IF JSONparse(text).ok THEN JSONparse(text).value
  ELSE LET m == BraceMatch(text)
       IN  IF m = None THEN JsNull
           ELSE IF JSONparse(m[1]).ok THEN JSONparse(m[1]).value ELSE JsNull

(***************************************************************************)
(* State.                                                                  *)
(***************************************************************************)
VARIABLES
  profile,     \* "single": one request, full input space;
               \* "concurrent": NumRequests requests, reduced input space;
               \* "library": no request, one direct call of a function
  env,         \* process.env: which of the three API keys are set
  pc,          \* per request: the await the handler is suspended at
  input,       \* per request: the multipart form the client sent
  frame,       \* per request: the local variables of POST
  resp,        \* per request: the NextResponse the handler returned
  requestLog,  \* table RequestLog: row id -> row (ids are 1..Len)
  lineItems,   \* table RequestCostLineItem: a bag of rows
  fetches,     \* per request: the vendor HTTP calls issued so far, in order
  updates,     \* per request: the requestLog.update calls applied so far
  lib          \* a direct call of a library function: its arguments and result

vars == << profile, env, pc, input, frame, resp, requestLog, lineItems, fetches, updates, lib >>

Requests == 1 .. NumRequests

Stages == {"VISION", "CONCEPT", "IMAGE_EDIT"}

(***************************************************************************)
(* Inputs.                                                                 *)
(***************************************************************************)
RawTitles   == { <<>>, <<" ">>, <<" ", "a">> }
RawConcepts == { <<" ">>, <<"c", " ">> }

\* the engineConfig form field: absent, not JSON, or JSON for a partial config
RawConfigs ==
  { [kind |-> "absent",    value |-> <<>>],
    [kind |-> "malformed", value |-> <<>>],
    [kind |-> "json", value |-> [textProvider |-> "anthropic", textModel |-> "claude-haiku"]],
    [kind |-> "json", value |-> [textProvider |-> "anthropic", textModel |-> "claude-sonnet",
                                 imageProvider |-> "gemini", imageModel |-> "gemini-2.5-flash-image"]],
    [kind |-> "json", value |-> [textProvider |-> "gemini", textModel |-> "gemini-2.5-flash",
                                 imageProvider |-> "anthropic", imageModel |-> "gpt-image-1"]],
    [kind |-> "json", value |-> [imageProvider |-> "gemini", imageModel |-> "gemini-2.5-flash-image"]],
    [kind |-> "json", value |-> [textModel |-> "gpt-9", imageProvider |-> "anthropic"]] }

\* image: "absent" (no file field), "empty" (a file of 0 bytes), "file"
Forms ==
  IF profile = "single"
    THEN [ parseable : {TRUE}, title : RawTitles, concept : RawConcepts,
           image : {"absent", "empty", "file"}, engineConfig : RawConfigs ]
         \cup
         { [ parseable |-> FALSE, title |-> <<>>, concept |-> <<>>, image |-> "absent",
             engineConfig |-> [kind |-> "absent", value |-> <<>>] ] }
    ELSE [ parseable : {TRUE}, title : { <<"a">> }, concept : { <<>> },
           image : {"file"}, engineConfig : { [kind |-> "absent", value |-> <<>>] } ]

Environments ==
  [ OPENAI_API_KEY : BOOLEAN, GEMINI_API_KEY : BOOLEAN, ANTHROPIC_API_KEY : BOOLEAN ]

\* what a vendor may answer
VendorErrorBodies == { "rate limit exceeded" }
\* the bodies of a successful text call: the model's text and the token
\* counts the body reports (0 when it reports none)
TextBodies ==
  IF profile = "single"
    THEN { [ text |-> << "{", "olc=summary", "immutable=list", "}" >>,
             input |-> MaxTokens, output |-> MaxTokens ],
           [ text |-> << "note", "{", "olc=blank", "}", "note" >>,
             input |-> MaxTokens, output |-> 0 ],
           [ text |-> << "{", "}" >>,  input |-> 0, output |-> MaxTokens ],
           [ text |-> << "note" >>,    input |-> 0, output |-> 0 ],
           [ text |-> << "null" >>,    input |-> MaxTokens, output |-> MaxTokens ] }
    ELSE { [ text |-> << "{", "olc=summary", "immutable=list", "}" >>,
             input |-> MaxTokens, output |-> MaxTokens ] }
\* the bodies of a successful image call: the payload and the reported tokens
ImageBodies ==
  IF profile = "single"
    THEN { [ b64 |-> "PNG", input |-> MaxTokens, output |-> 0 ],
           [ b64 |-> "PNG", input |-> 0, output |-> 0 ] }
    ELSE { [ b64 |-> "PNG", input |-> MaxTokens, output |-> 0 ] }
\* the ways a vendor call that reached the network may fail
Faults ==
  IF profile = "single" THEN { "http_error", "bad_body", "no_image" } ELSE { "http_error" }

\* a store operation either is applied or throws, leaving the table unchanged
StoreOutcomes == { "ok", "error" }

(***************************************************************************)
(* Messages.                                                               *)
(***************************************************************************)
MsgTitleRequired     == << "title is required" >>
MsgImageRequired     == << "image is required" >>
MsgNoOpenAIKey       == << "OPENAI_API_KEY is not set" >>
MsgNoGeminiKey       == << "GEMINI_API_KEY is not set" >>
MsgNoAnthropicKey    == << "ANTHROPIC_API_KEY is not set" >>
MsgAnthropicNoImage  == << "Anthropic does not support image generation/editing" >>
MsgNoVisionFallback  == << "Claude(Text) needs OPENAI_API_KEY or GEMINI_API_KEY for vision" >>
MsgDataUrl           == << "dataUrl parse failed" >>
MsgImageParse        == << "image response parse failed" >>
MsgFormData          == << "formData failed" >>
MsgStore             == << "store operation failed" >>
MsgBadJson           == << "response body is not JSON" >>

\* bad() ignoring its status argument: every error answered with the default 400
bad_DefaultStatus(msg, status) ==
  [ status |-> 400, error |-> Some(msg), concept_used |-> None, image_base64 |-> None ]

\* bad(msg, status): NextResponse.json({ error: msg }, { status })
bad(msg, status) ==
  [ status |-> status, error |-> Some(msg), concept_used |-> None, image_base64 |-> None ]

\* NextResponse.json(result)
okResponse(conceptUsed, b64) ==
  [ status |-> 200, error |-> None, concept_used |-> Some(conceptUsed), image_base64 |-> Some(b64) ]

DefaultDirectionConcept == << "l", "i", "g", "h", "t" >>
DefaultConceptUsed      == << "m", "o", "o", "d" >>

(***************************************************************************)
(* Vendor adapters.  An adapter call is modelled by the set of results it  *)
(* may produce: fetched says whether an HTTP request left the process,     *)
(* outcome is "ok" or the reason the adapter threw.                        *)
(***************************************************************************)
Threw(fetched, outcome, msg) ==
  [ fetched |-> fetched, outcome |-> outcome, error |-> msg,
    text |-> <<>>, b64 |-> "", usage |-> None ]

\* getOpenAIUsage / geminiUsage / claudeUsage on a body reporting i and o tokens
Usage(i, o) == [ input |-> i, output |-> o, total |-> i + o ]

\* fetch + res.ok + res.json() + text and usage extraction of a text call
TextHttpResults(prefix) ==
  { Threw(TRUE, "http_error", << prefix, b >>) : b \in VendorErrorBodies }
  \cup { t \in { Threw(TRUE, "bad_body", MsgBadJson) } : t.outcome \in Faults }
  \cup { [ fetched |-> TRUE, outcome |-> "ok", error |-> <<>>,
           text |-> body.text, b64 |-> "", usage |-> Some(Usage(body.input, body.output)) ]
         : body \in TextBodies }

\* parseDataUrl fails on a data URL whose base64 part is empty
callTextModel(vendor, withImage, imageEmpty) ==
  CASE vendor = "openai" -> TextHttpResults("OpenAI text call failed: ")
    [] vendor = "google" ->
         IF ~ env.GEMINI_API_KEY THEN { Threw(FALSE, "no_key", MsgNoGeminiKey) }
         ELSE IF withImage /\ imageEmpty THEN { Threw(FALSE, "data_url", MsgDataUrl) }
         ELSE TextHttpResults("Gemini text call failed: ")
    [] vendor = "anthropic" ->
         IF ~ env.ANTHROPIC_API_KEY THEN { Threw(FALSE, "no_key", MsgNoAnthropicKey) }
         ELSE IF withImage /\ imageEmpty THEN { Threw(FALSE, "data_url", MsgDataUrl) }
         ELSE TextHttpResults("Anthropic text call failed: ")
    [] OTHER -> { Threw(FALSE, "unknown_vendor", << "Unknown vendor" >>) }

\* a variant of the image adapter in which the anthropic vendor is not
\* stopped before the network: it posts to the OpenAI edit endpoint
callImageEdit_AnthropicFetches(vendor) ==
  IF vendor \in { "openai", "anthropic" }
    THEN { Threw(TRUE, "http_error", << "OpenAI image edit failed: ", b >>) : b \in VendorErrorBodies }
         \cup { [ fetched |-> TRUE, outcome |-> "ok", error |-> <<>>,
                  text |-> <<>>, b64 |-> body.b64, usage |-> None ] : body \in ImageBodies }
    ELSE { Threw(FALSE, "unknown_vendor", << "Image vendor not supported" >>) }

callImageEdit(vendor) ==
  CASE vendor = "openai" ->
         { Threw(TRUE, "http_error", << "OpenAI image edit failed: ", b >>) : b \in VendorErrorBodies }
         \cup { t \in { Threw(TRUE, "bad_body", MsgBadJson), Threw(TRUE, "no_image", MsgImageParse) } :
                  t.outcome \in Faults }
         \cup { [ fetched |-> TRUE, outcome |-> "ok", error |-> <<>>,
                  text |-> <<>>, b64 |-> body.b64, usage |-> None ] : body \in ImageBodies }
    [] vendor = "google" ->
         IF ~ env.GEMINI_API_KEY THEN { Threw(FALSE, "no_key", MsgNoGeminiKey) }
         ELSE
           { Threw(TRUE, "http_error", << "Gemini image call failed: ", b >>) : b \in VendorErrorBodies }
           \cup { t \in { Threw(TRUE, "bad_body", MsgBadJson),
                         Threw(TRUE, "no_image", << "Gemini image response parse failed (text: ", "none" >>) } :
                    t.outcome \in Faults }
           \cup { [ fetched |-> TRUE, outcome |-> "ok", error |-> <<>>,
                    text |-> <<>>, b64 |-> body.b64, usage |-> Some(Usage(body.input, body.output)) ]
                  : body \in ImageBodies }
    [] vendor = "anthropic" -> { Threw(FALSE, "unsupported", MsgAnthropicNoImage) }
    [] OTHER -> { Threw(FALSE, "unknown_vendor", << "Image vendor not supported" >>) }

\* a variant that sends the vision step of an anthropic text engine to
\* openai without looking at OPENAI_API_KEY
chooseVisionEngine_OpenAIUnconditionally(cfg) ==
  IF cfg.textProvider = "anthropic" THEN
    [ ok |-> TRUE, provider |-> "openai", vendor |-> getApiVendor("openai"),
      apiModel |-> resolveApiModel("openai", "text", defaultConfig.textModel) ]
  ELSE
    [ ok |-> TRUE, provider |-> cfg.textProvider, vendor |-> getApiVendor(cfg.textProvider),
      apiModel |-> resolveApiModel(cfg.textProvider, "text", cfg.textModel) ]

\* chooseVisionEngine without the anthropic exception: always the text engine
chooseVisionEngine_NoFallback(cfg) ==
  [ ok |-> TRUE, provider |-> cfg.textProvider, vendor |-> getApiVendor(cfg.textProvider),
    apiModel |-> resolveApiModel(cfg.textProvider, "text", cfg.textModel) ]

\* [ok |-> FALSE] stands for the Error chooseVisionEngine throws
chooseVisionEngine(cfg) ==
  IF cfg.textProvider = "anthropic" THEN
    IF env.OPENAI_API_KEY THEN
      [ ok |-> TRUE, provider |-> "openai", vendor |-> getApiVendor("openai"),
        apiModel |-> resolveApiModel("openai", "text", defaultConfig.textModel) ]
    ELSE IF env.GEMINI_API_KEY THEN
      [ ok |-> TRUE, provider |-> "gemini", vendor |-> getApiVendor("gemini"),
        apiModel |-> resolveApiModel("gemini", "text", "gemini-2.5-flash") ]
    ELSE [ ok |-> FALSE, provider |-> "", vendor |-> "", apiModel |-> "" ]
  ELSE
    [ ok |-> TRUE, provider |-> cfg.textProvider, vendor |-> getApiVendor(cfg.textProvider),
      apiModel |-> resolveApiModel(cfg.textProvider, "text", cfg.textModel) ]

(***************************************************************************)
(* The handler's local variables.                                          *)
(***************************************************************************)
NoEngine == [ ok |-> FALSE, provider |-> "", vendor |-> "", apiModel |-> "" ]

NewFrame ==
  [ title        |-> <<>>,
    userConcept  |-> <<>>,
    imageEmpty   |-> FALSE,
    cfg          |-> defaultConfig,
    requestLogId |-> 0,          \* 0 is null
    visionEngine |-> NoEngine,
    totalCostUsd |-> 0,
    visionCall   |-> None,
    vCost        |-> 0,
    visionJson   |-> None,
    conceptCall  |-> None,
    cCost        |-> 0,
    direction    |-> None,
    conceptUsed  |-> None,
    imgCall      |-> None,
    imgCost      |-> 0,
    e            |-> None,       \* the error caught by the top-level catch
    elapsed      |-> 0 ]         \* Date.now() - startedAt, one tick per await

textVendor(f)    == getApiVendor(f.cfg.textProvider)
imageVendor(f)   == getApiVendor(f.cfg.imageProvider)
textApiModel(f)  == resolveApiModel(f.cfg.textProvider, "text", f.cfg.textModel)
imageApiModel(f) == resolveApiModel(f.cfg.imageProvider, "image", f.cfg.imageModel)

Tick(f) == [ f EXCEPT !.elapsed = @ + 1 ]

\* a variant in which an unparseable engineConfig leaves the gemini text
\* engine selected instead of the default configuration
LoadConfig_MalformedSelectsGemini(raw) ==
  CASE raw.kind = "absent"    -> normalizeEngineConfig(<<>>)
    [] raw.kind = "malformed" -> [ defaultConfig EXCEPT !.textProvider = "gemini",
                                                        !.textModel = "gemini-2.5-flash" ]
    [] raw.kind = "json"      -> normalizeEngineConfig(raw.value)

\* the engineConfig field parsed and normalised (lines 478-485)
LoadConfig(raw) ==
  CASE raw.kind = "absent"    -> normalizeEngineConfig(<<>>)
    [] raw.kind = "malformed" -> normalizeEngineConfig(defaultConfig)
    [] raw.kind = "json"      -> normalizeEngineConfig(raw.value)

\* the credential checks without the image-stage checks of lines 509-512
KeyCheck_TextOnly(cfg) ==
  LET tv == getApiVendor(cfg.textProvider)
  IN  IF      tv = "openai"    /\ ~ env.OPENAI_API_KEY    THEN Some(bad(MsgNoOpenAIKey, 500))
      ELSE IF tv = "google"    /\ ~ env.GEMINI_API_KEY    THEN Some(bad(MsgNoGeminiKey, 500))
      ELSE IF tv = "anthropic" /\ ~ env.ANTHROPIC_API_KEY THEN Some(bad(MsgNoAnthropicKey, 500))
      ELSE None

\* the response of the credential checks of lines 504-512, <<>> when all pass
KeyCheck(cfg) ==
  LET tv == getApiVendor(cfg.textProvider)
      iv == getApiVendor(cfg.imageProvider)
  IN  IF      tv = "openai"    /\ ~ env.OPENAI_API_KEY    THEN Some(bad(MsgNoOpenAIKey, 500))
      ELSE IF tv = "google"    /\ ~ env.GEMINI_API_KEY    THEN Some(bad(MsgNoGeminiKey, 500))
      ELSE IF tv = "anthropic" /\ ~ env.ANTHROPIC_API_KEY THEN Some(bad(MsgNoAnthropicKey, 500))
      ELSE IF iv = "openai"    /\ ~ env.OPENAI_API_KEY    THEN Some(bad(MsgNoOpenAIKey, 500))
      ELSE IF iv = "google"    /\ ~ env.GEMINI_API_KEY    THEN Some(bad(MsgNoGeminiKey, 500))
      ELSE IF iv = "anthropic"                            THEN Some(bad(MsgAnthropicNoImage, 400))
      ELSE None

\* a variant that creates the row as already successful
NewRequestLogRow_Optimistic(id, f) ==
  [ id            |-> id,
    title         |-> f.title,
    userConcept   |-> IF f.userConcept # <<>> THEN Some(f.userConcept) ELSE None,
    conceptUsed   |-> None,
    textProvider  |-> f.cfg.textProvider,
    textModel     |-> f.cfg.textModel,
    imageProvider |-> f.cfg.imageProvider,
    imageModel    |-> f.cfg.imageModel,
    success       |-> TRUE,
    errorMessage  |-> None,
    totalCostUsd  |-> 0,
    latencyMs     |-> 0 ]

(***************************************************************************)
(* The log store.                                                          *)
(***************************************************************************)
\* prisma.requestLog.create (lines 515-529)
NewRequestLogRow(id, f) ==
  [ id            |-> id,
    title         |-> f.title,
    userConcept   |-> IF f.userConcept # <<>> THEN Some(f.userConcept) ELSE None,
    conceptUsed   |-> None,
    textProvider  |-> f.cfg.textProvider,
    textModel     |-> f.cfg.textModel,
    imageProvider |-> f.cfg.imageProvider,
    imageModel    |-> f.cfg.imageModel,
    success       |-> FALSE,
    errorMessage  |-> None,
    totalCostUsd  |-> 0,
    latencyMs     |-> 0 ]

\* prisma.requestCostLineItem.create of a text stage (lines 562-573, 607-618)
TextLineItem(requestId, stage, provider, model, usage, cost) ==
  [ requestId |-> requestId, stage |-> stage, provider |-> provider, model |-> model,
    inputTokens |-> Some(usage.input), outputTokens |-> Some(usage.output),
    totalTokens |-> Some(usage.total), imageSize |-> None, imageCount |-> None,
    costUsd |-> cost ]

\* prisma.requestCostLineItem.create of the image stage (lines 670-680)
ImageLineItem(requestId, provider, model, cost) ==
  [ requestId |-> requestId, stage |-> "IMAGE_EDIT", provider |-> provider, model |-> model,
    inputTokens |-> None, outputTokens |-> None, totalTokens |-> None,
    imageSize |-> Some(1024), imageCount |-> Some(1), costUsd |-> cost ]

\* a success update that writes the total as it stood before the image stage
SuccessData_StaleTotal(row, f) ==
  [ row EXCEPT !.conceptUsed  = f.conceptUsed,
               !.success      = TRUE,
               !.errorMessage = None,
               !.latencyMs    = f.elapsed,
               !.totalCostUsd = f.totalCostUsd - f.imgCost ]

\* the data of the success update (lines 684-693)
SuccessData(row, f) ==
  [ row EXCEPT !.conceptUsed  = f.conceptUsed,
               !.success      = TRUE,
               !.errorMessage = None,
               !.latencyMs    = f.elapsed,
               !.totalCostUsd = f.totalCostUsd ]

\* a variant of the failure update that also writes the running total and
\* the concept reached so far
FailureData_WithPartialResults(row, f, msg) ==
  [ row EXCEPT !.success      = FALSE,
               !.errorMessage = Some(msg),
               !.latencyMs    = f.elapsed,
               !.totalCostUsd = f.totalCostUsd,
               !.conceptUsed  = f.conceptUsed ]

\* the data of the failure update (lines 706-713)
FailureData(row, f, msg) ==
  [ row EXCEPT !.success      = FALSE,
               !.errorMessage = Some(msg),
               !.latencyMs    = f.elapsed ]

(***************************************************************************)
(* POST, one action per await.                                             *)
(***************************************************************************)
Caught(f, msg) == [ f EXCEPT !.e = Some(msg) ]

\* the validation of lines 488-489 without its image check
Validate_TitleOnly(title, image) ==
  IF title = <<>> THEN Some(bad(MsgTitleRequired, 400)) ELSE None

\* the response of the validation of lines 488-489, <<>> when the form passes
Validate(title, image) ==
  IF title = <<>> THEN Some(bad(MsgTitleRequired, 400))
  ELSE IF image = "absent" THEN Some(bad(MsgImageRequired, 400))
  ELSE None

\* a catch block that never touches the log row
HasRequestLog_Never(f) == FALSE

\* if (requestLogId) of line 705
HasRequestLog(f) == f.requestLogId # 0

\* lines 466-512: form parsing, config normalisation, validation, key checks
Start(r) ==
  /\ pc[r] = "idle"
  /\ profile = "single" => r = 1
  /\ \E form \in Forms :
       LET title       == Trim(form.title)
           userConcept == Trim(form.concept)
           cfg         == LoadConfig(form.engineConfig)
           f           == [ Tick(NewFrame) EXCEPT !.title = title,
                                                  !.userConcept = userConcept,
                                                  !.imageEmpty = (form.image = "empty"),
                                                  !.cfg = cfg ]
           early       == IF Validate(title, form.image) # None
                            THEN Validate(title, form.image)
                            ELSE KeyCheck(cfg)
       IN  /\ input' = [ input EXCEPT ![r] = Some(form) ]
           /\ IF ~ form.parseable
                THEN /\ frame' = [ frame EXCEPT ![r] = Caught(Tick(NewFrame), MsgFormData) ]
                     /\ pc' = [ pc EXCEPT ![r] = "catch" ]
                     /\ resp' = resp
                ELSE IF early # None
                  THEN /\ frame' = [ frame EXCEPT ![r] = f ]
                       /\ pc' = [ pc EXCEPT ![r] = "done" ]
                       /\ resp' = [ resp EXCEPT ![r] = early ]
                  ELSE /\ frame' = [ frame EXCEPT ![r] = f ]
                       /\ pc' = [ pc EXCEPT ![r] = "createLog" ]
                       /\ resp' = resp
  /\ UNCHANGED << lib, profile, env, requestLog, lineItems, fetches, updates >>

\* lines 515-537: the initial log row, model names, the vision engine
CreateRequestLog(r) ==
  /\ pc[r] = "createLog"
  /\ \E outcome \in StoreOutcomes :
       LET f  == Tick(frame[r])
           id == Len(requestLog) + 1
           ve == chooseVisionEngine(f.cfg)
       IN  IF outcome = "error"
             THEN /\ frame' = [ frame EXCEPT ![r] = Caught(f, MsgStore) ]
                  /\ pc' = [ pc EXCEPT ![r] = "catch" ]
                  /\ UNCHANGED requestLog
             ELSE /\ requestLog' = Append(requestLog, NewRequestLogRow(id, f))
                  /\ IF ve.ok
                       THEN /\ frame' = [ frame EXCEPT ![r] =
                                            [ f EXCEPT !.requestLogId = id, !.visionEngine = ve ] ]
                            /\ pc' = [ pc EXCEPT ![r] = "vision" ]
                       ELSE /\ frame' = [ frame EXCEPT ![r] =
                                            Caught([ f EXCEPT !.requestLogId = id ], MsgNoVisionFallback) ]
                            /\ pc' = [ pc EXCEPT ![r] = "catch" ]
  /\ UNCHANGED << lib, profile, env, input, resp, lineItems, fetches, updates >>

\* the entry a vendor call leaves in the request's call history
Fetched(r, stage, vendor, apiModel, res) ==
  IF res.fetched
    THEN Append(fetches[r], [ stage |-> stage, vendor |-> vendor, apiModel |-> apiModel,
                              outcome |-> res.outcome ])
    ELSE fetches[r]

\* lines 546-560: the vision call and its cost
VisionCall(r) ==
  /\ pc[r] = "vision"
  /\ LET f0 == Tick(frame[r])
         ve == f0.visionEngine
     IN  \E res \in callTextModel(ve.vendor, TRUE, f0.imageEmpty) :
           /\ fetches' = [ fetches EXCEPT ![r] = Fetched(r, "VISION", ve.vendor, ve.apiModel, res) ]
           /\ IF res.outcome = "ok"
                THEN LET vCost == calcTextCostUsd(ve.vendor, ve.apiModel, res.usage[1])
                     IN  /\ frame' = [ frame EXCEPT ![r] =
                                         [ f0 EXCEPT !.visionCall = Some([ text |-> res.text, usage |-> res.usage[1] ]),
                                                     !.vCost = vCost,
                                                     !.totalCostUsd = @ + vCost ] ]
                         /\ pc' = [ pc EXCEPT ![r] = "visionItem" ]
                ELSE /\ frame' = [ frame EXCEPT ![r] = Caught(f0, res.error) ]
                     /\ pc' = [ pc EXCEPT ![r] = "catch" ]
  /\ UNCHANGED << lib, profile, env, input, resp, requestLog, lineItems, updates >>

\* the vision JSON taken from safeParseJson without the ?? default
VisionJsonOf_NoDefault(text) == safeParseJson(text)

\* safeParseJson(visionCall.text) ?? { ..., immutable_elements: [], ... }
VisionJsonOf(text) ==
  LET v == safeParseJson(text)
  IN  IF v.type = "null"
        THEN [ type |-> "object", one_line_concept |-> None, immutable_elements |-> Some(<<>>) ]
        ELSE v

\* a variant that records the configured text engine on the VISION item,
\* whichever engine was called
VisionLineItem_ConfiguredEngine(r) ==
  /\ pc[r] = "visionItem"
  /\ \E outcome \in StoreOutcomes :
       LET f  == Tick(frame[r])
           ve == f.visionEngine
           vU == f.visionCall[1].usage
       IN  IF outcome = "error"
             THEN /\ frame' = [ frame EXCEPT ![r] = Caught(f, MsgStore) ]
                  /\ pc' = [ pc EXCEPT ![r] = "catch" ]
                  /\ UNCHANGED lineItems
             ELSE /\ lineItems' = lineItems (+) SetToBag({ TextLineItem(f.requestLogId, "VISION",
                                                             f.cfg.textProvider, textApiModel(f), vU, f.vCost) })
                  /\ frame' = [ frame EXCEPT ![r] =
                                  [ f EXCEPT !.visionJson = Some(VisionJsonOf(f.visionCall[1].text)) ] ]
                  /\ pc' = [ pc EXCEPT ![r] = "concept" ]
  /\ UNCHANGED << lib, profile, env, input, resp, requestLog, fetches, updates >>

\* lines 562-592: the VISION line item, the vision JSON, the concept prompt
VisionLineItem(r) ==
  /\ pc[r] = "visionItem"
  /\ \E outcome \in StoreOutcomes :
       LET f  == Tick(frame[r])
           ve == f.visionEngine
           vU == f.visionCall[1].usage
       IN  IF outcome = "error"
             THEN /\ frame' = [ frame EXCEPT ![r] = Caught(f, MsgStore) ]
                  /\ pc' = [ pc EXCEPT ![r] = "catch" ]
                  /\ UNCHANGED lineItems
             ELSE /\ lineItems' = lineItems (+) SetToBag({ TextLineItem(f.requestLogId, "VISION",
                                                             ve.provider, ve.apiModel, vU, f.vCost) })
                  /\ frame' = [ frame EXCEPT ![r] =
                                  [ f EXCEPT !.visionJson = Some(VisionJsonOf(f.visionCall[1].text)) ] ]
                  /\ pc' = [ pc EXCEPT ![r] = "concept" ]
  /\ UNCHANGED << lib, profile, env, input, resp, requestLog, fetches, updates >>

\* the concept call retried after a failure instead of failing the request
ConceptCall_Retry(r) ==
  /\ pc[r] = "concept"
  /\ Len(fetches[r]) < 4
  /\ LET f0 == Tick(frame[r])
     IN  \E res \in callTextModel(textVendor(f0), FALSE, f0.imageEmpty) :
           /\ fetches' = [ fetches EXCEPT ![r] =
                             Fetched(r, "CONCEPT", textVendor(f0), textApiModel(f0), res) ]
           /\ IF res.outcome = "ok"
                THEN LET cCost == calcTextCostUsd(textVendor(f0), textApiModel(f0), res.usage[1])
                     IN  /\ frame' = [ frame EXCEPT ![r] =
                                         [ f0 EXCEPT !.conceptCall = Some([ text |-> res.text, usage |-> res.usage[1] ]),
                                                     !.cCost = cCost,
                                                     !.totalCostUsd = @ + cCost ] ]
                         /\ pc' = [ pc EXCEPT ![r] = "conceptItem" ]
                ELSE /\ frame' = [ frame EXCEPT ![r] = f0 ]
                     /\ pc' = [ pc EXCEPT ![r] = "concept" ]
  /\ UNCHANGED << lib, profile, env, input, resp, requestLog, lineItems, updates >>

\* lines 594-605: the concept call and its cost
ConceptCall(r) ==
  /\ pc[r] = "concept"
  /\ LET f0 == Tick(frame[r])
     IN  \E res \in callTextModel(textVendor(f0), FALSE, f0.imageEmpty) :
           /\ fetches' = [ fetches EXCEPT ![r] =
                             Fetched(r, "CONCEPT", textVendor(f0), textApiModel(f0), res) ]
           /\ IF res.outcome = "ok"
                THEN LET cCost == calcTextCostUsd(textVendor(f0), textApiModel(f0), res.usage[1])
                     IN  /\ frame' = [ frame EXCEPT ![r] =
                                         [ f0 EXCEPT !.conceptCall = Some([ text |-> res.text, usage |-> res.usage[1] ]),
                                                     !.cCost = cCost,
                                                     !.totalCostUsd = @ + cCost ] ]
                         /\ pc' = [ pc EXCEPT ![r] = "conceptItem" ]
                ELSE /\ frame' = [ frame EXCEPT ![r] = Caught(f0, res.error) ]
                     /\ pc' = [ pc EXCEPT ![r] = "catch" ]
  /\ UNCHANGED << lib, profile, env, input, resp, requestLog, lineItems, updates >>

\* safeParseJson(conceptCall.text) ?? { one_line_concept: userConcept || "...", ... }
DirectionOf(text, userConcept) ==
  LET v == safeParseJson(text)
  IN  IF v.type = "null"
        THEN [ type |-> "object",
               one_line_concept |-> Some(IF userConcept # <<>> THEN userConcept
                                         ELSE DefaultDirectionConcept),
               immutable_elements |-> None ]
        ELSE v

\* lines 634-636
ConceptUsedOf(direction, userConcept) ==
  LET olc == IF direction.one_line_concept = None THEN <<>>
             ELSE Trim(direction.one_line_concept[1])
  IN  IF olc # <<>> THEN olc
      ELSE IF userConcept # <<>> THEN userConcept
      ELSE DefaultConceptUsed

\* lines 607-647: the CONCEPT line item, the direction, conceptUsed, the edit prompt
ConceptLineItem(r) ==
  /\ pc[r] = "conceptItem"
  /\ \E outcome \in StoreOutcomes :
       LET f  == Tick(frame[r])
           cU == f.conceptCall[1].usage
           direction == DirectionOf(f.conceptCall[1].text, f.userConcept)
       IN  IF outcome = "error"
             THEN /\ frame' = [ frame EXCEPT ![r] = Caught(f, MsgStore) ]
                  /\ pc' = [ pc EXCEPT ![r] = "catch" ]
                  /\ UNCHANGED lineItems
             ELSE /\ lineItems' = lineItems (+) SetToBag({ TextLineItem(f.requestLogId, "CONCEPT",
                                                             f.cfg.textProvider, textApiModel(f), cU, f.cCost) })
                  /\ frame' = [ frame EXCEPT ![r] =
                                  [ f EXCEPT !.direction = Some(direction),
                                             !.conceptUsed = Some(ConceptUsedOf(direction, f.userConcept)) ] ]
                  /\ pc' = [ pc EXCEPT ![r] = "image" ]
  /\ UNCHANGED << lib, profile, env, input, resp, requestLog, fetches, updates >>

\* lines 649-668: the image-edit call and its cost
ImageEditCall(r) ==
  /\ pc[r] = "image"
  /\ LET f0 == Tick(frame[r])
     IN  \E res \in callImageEdit(imageVendor(f0)) :
           /\ fetches' = [ fetches EXCEPT ![r] =
                             Fetched(r, "IMAGE_EDIT", imageVendor(f0), imageApiModel(f0), res) ]
           /\ IF res.outcome = "ok"
                THEN LET imgCost == calcImageCostUsd(imageVendor(f0), imageApiModel(f0), 1, "low",
                                                     IF imageVendor(f0) = "google" THEN res.usage ELSE None)
                     IN  /\ frame' = [ frame EXCEPT ![r] =
                                         [ f0 EXCEPT !.imgCall = Some([ b64 |-> res.b64, usage |-> res.usage ]),
                                                     !.imgCost = imgCost,
                                                     !.totalCostUsd = @ + imgCost ] ]
                         /\ pc' = [ pc EXCEPT ![r] = "imageItem" ]
                ELSE /\ frame' = [ frame EXCEPT ![r] = Caught(f0, res.error) ]
                     /\ pc' = [ pc EXCEPT ![r] = "catch" ]
  /\ UNCHANGED << lib, profile, env, input, resp, requestLog, lineItems, updates >>

\* the IMAGE_EDIT line item written best-effort: a store error is swallowed
ImageEditLineItem_Swallow(r) ==
  /\ pc[r] = "imageItem"
  /\ \E outcome \in StoreOutcomes :
       LET f == Tick(frame[r])
       IN  /\ lineItems' = IF outcome = "error" THEN lineItems
                           ELSE lineItems (+) SetToBag({ ImageLineItem(f.requestLogId,
                                                           f.cfg.imageProvider, imageApiModel(f), f.imgCost) })
           /\ frame' = [ frame EXCEPT ![r] = f ]
           /\ pc' = [ pc EXCEPT ![r] = "update" ]
  /\ UNCHANGED << lib, profile, env, input, resp, requestLog, fetches, updates >>

\* lines 670-683: the IMAGE_EDIT line item
ImageEditLineItem(r) ==
  /\ pc[r] = "imageItem"
  /\ \E outcome \in StoreOutcomes :
       LET f == Tick(frame[r])
       IN  IF outcome = "error"
             THEN /\ frame' = [ frame EXCEPT ![r] = Caught(f, MsgStore) ]
                  /\ pc' = [ pc EXCEPT ![r] = "catch" ]
                  /\ UNCHANGED lineItems
             ELSE /\ lineItems' = lineItems (+) SetToBag({ ImageLineItem(f.requestLogId,
                                                             f.cfg.imageProvider, imageApiModel(f), f.imgCost) })
                  /\ frame' = [ frame EXCEPT ![r] = f ]
                  /\ pc' = [ pc EXCEPT ![r] = "update" ]
  /\ UNCHANGED << lib, profile, env, input, resp, requestLog, fetches, updates >>

\* the success update with requestLogId kept in a module-level variable that
\* every request overwrites: the row updated is the one created last
SuccessUpdate_SharedId(r) ==
  /\ pc[r] = "update"
  /\ \E outcome \in StoreOutcomes :
       LET f  == Tick(frame[r])
           id == Len(requestLog)
       IN  IF outcome = "error"
             THEN /\ frame' = [ frame EXCEPT ![r] = Caught(f, MsgStore) ]
                  /\ pc' = [ pc EXCEPT ![r] = "catch" ]
                  /\ UNCHANGED << requestLog, updates, resp >>
             ELSE /\ requestLog' = [ requestLog EXCEPT ![id] = SuccessData(@, f) ]
                  /\ updates' = [ updates EXCEPT ![r] = Append(@, "success") ]
                  /\ frame' = [ frame EXCEPT ![r] = f ]
                  /\ resp' = [ resp EXCEPT ![r] = Some(okResponse(f.conceptUsed[1], f.imgCall[1].b64)) ]
                  /\ pc' = [ pc EXCEPT ![r] = "done" ]
  /\ UNCHANGED << lib, profile, env, input, lineItems, fetches >>

\* lines 683-700: the success update and the success response
SuccessUpdate(r) ==
  /\ pc[r] = "update"
  /\ \E outcome \in StoreOutcomes :
       LET f  == Tick(frame[r])
           id == f.requestLogId
       IN  IF outcome = "error"
             THEN /\ frame' = [ frame EXCEPT ![r] = Caught(f, MsgStore) ]
                  /\ pc' = [ pc EXCEPT ![r] = "catch" ]
                  /\ UNCHANGED << requestLog, updates, resp >>
             ELSE /\ requestLog' = [ requestLog EXCEPT ![id] = SuccessData(@, f) ]
                  /\ updates' = [ updates EXCEPT ![r] = Append(@, "success") ]
                  /\ frame' = [ frame EXCEPT ![r] = f ]
                  /\ resp' = [ resp EXCEPT ![r] = Some(okResponse(f.conceptUsed[1], f.imgCall[1].b64)) ]
                  /\ pc' = [ pc EXCEPT ![r] = "done" ]
  /\ UNCHANGED << lib, profile, env, input, lineItems, fetches >>

\* a catch block that rolls the request's line items back before answering
Catch_Rollback(r) ==
  /\ pc[r] = "catch"
  /\ LET f    == frame[r]
         msg  == f.e[1]
         id   == f.requestLogId
         kept == { it \in BagToSet(lineItems) : it.requestId # id }
     IN  /\ lineItems' = [ it \in kept |-> lineItems[it] ]
         /\ IF ~ HasRequestLog(f)
              THEN /\ resp' = [ resp EXCEPT ![r] = Some(bad(msg, 500)) ]
                   /\ pc' = [ pc EXCEPT ![r] = "done" ]
                   /\ UNCHANGED << frame, requestLog, updates >>
              ELSE /\ requestLog' = [ requestLog EXCEPT ![id] = FailureData(@, f, msg) ]
                   /\ updates' = [ updates EXCEPT ![r] = Append(@, "failure") ]
                   /\ frame' = [ frame EXCEPT ![r] = Tick(f) ]
                   /\ resp' = [ resp EXCEPT ![r] = Some(bad(msg, 500)) ]
                   /\ pc' = [ pc EXCEPT ![r] = "done" ]
  /\ UNCHANGED << lib, profile, env, input, fetches >>

\* lines 701-717: the top-level catch.  When its own update throws, the
\* handler's promise rejects and no response is returned by it.
Catch(r) ==
  /\ pc[r] = "catch"
  /\ LET f   == frame[r]
         msg == f.e[1]
         id  == f.requestLogId
     IN  IF ~ HasRequestLog(f)
           THEN /\ resp' = [ resp EXCEPT ![r] = Some(bad(msg, 500)) ]
                /\ pc' = [ pc EXCEPT ![r] = "done" ]
                /\ UNCHANGED << frame, requestLog, updates >>
           ELSE \E outcome \in StoreOutcomes :
                  IF outcome = "error"
                    THEN /\ pc' = [ pc EXCEPT ![r] = "threw" ]
                         /\ frame' = [ frame EXCEPT ![r] = Tick(f) ]
                         /\ UNCHANGED << resp, requestLog, updates >>
                    ELSE /\ requestLog' = [ requestLog EXCEPT ![id] = FailureData(@, f, msg) ]
                         /\ updates' = [ updates EXCEPT ![r] = Append(@, "failure") ]
                         /\ frame' = [ frame EXCEPT ![r] = Tick(f) ]
                         /\ resp' = [ resp EXCEPT ![r] = Some(bad(msg, 500)) ]
                         /\ pc' = [ pc EXCEPT ![r] = "done" ]
  /\ UNCHANGED << lib, profile, env, input, lineItems, fetches >>

(***************************************************************************)
(* Specification.                                                          *)
(***************************************************************************)
\* no library function is being called directly
NoCall == [ fn |-> "none", args |-> <<>>, done |-> FALSE, result |-> <<>> ]

Init ==
  /\ lib = NoCall
  /\ profile \in { "single", "concurrent" }
  /\ env \in Environments
  /\ profile = "concurrent" => \A k \in DOMAIN env : env[k]
  /\ pc = [ r \in Requests |-> "idle" ]
  /\ input = [ r \in Requests |-> None ]
  /\ frame = [ r \in Requests |-> NewFrame ]
  /\ resp = [ r \in Requests |-> None ]
  /\ requestLog = <<>>
  /\ lineItems = EmptyBag
  /\ fetches = [ r \in Requests |-> <<>> ]
  /\ updates = [ r \in Requests |-> <<>> ]

Next ==
  \E r \in Requests :
    \/ Start(r)
    \/ CreateRequestLog(r)
    \/ VisionCall(r)
    \/ VisionLineItem(r)
    \/ ConceptCall(r)
    \/ ConceptLineItem(r)
    \/ ImageEditCall(r)
    \/ ImageEditLineItem(r)
    \/ SuccessUpdate(r)
    \/ Catch(r)

Spec == Init /\ [][Next]_vars

\* the continuation of request r after one of its awaits
Continue(r) ==
  \/ CreateRequestLog(r)
  \/ VisionCall(r)
  \/ VisionLineItem(r)
  \/ ConceptCall(r)
  \/ ConceptLineItem(r)
  \/ ImageEditCall(r)
  \/ ImageEditLineItem(r)
  \/ SuccessUpdate(r)
  \/ Catch(r)

\* Every awaited vendor call and store operation settles, with a result or
\* an error, and the event loop then resumes the handler: a started request
\* that can take its next step eventually takes it.  Nothing obliges a new
\* request to arrive.
FairSpec == Spec /\ \A r \in Requests : WF_vars(Continue(r))

(***************************************************************************)
(* Direct calls of the library functions: normalizeEngineConfig and        *)
(* resolveApiModel (lib/modelRegistry.ts), calcTextCostUsd and             *)
(* calcImageCostUsd (lib/costing.ts), safeParseJson (route.ts).  The       *)
(* initial state holds the arguments of one call, the step applies the     *)
(* function.                                                               *)
(***************************************************************************)
\* token counts of the usage passed to a pricing function: 0..MaxUsage
MaxUsage == 3
\* imageCount passed to calcImageCostUsd: 0..MaxImages
MaxImages == 2
\* length, in tokens, of a text passed to safeParseJson: 0..MaxTextLen
MaxTextLen == 4

\* a field the caller left out of the partial config
Absent == "(absent)"
\* a provider and a model id no catalog lists
UnknownProvider == "mistral"
UnknownModel    == "gpt-9"

CatalogIds(list) == { list[i].id : i \in DOMAIN list }
ModelIds == CatalogIds(TEXT_MODELS) \cup CatalogIds(IMAGE_MODELS)
\* the apiModel overrides of the catalogs
WireNames ==
  { TEXT_MODELS[i].apiModel : i \in { j \in DOMAIN TEXT_MODELS : TEXT_MODELS[j].apiModel # "" } }
  \cup { IMAGE_MODELS[i].apiModel : i \in { j \in DOMAIN IMAGE_MODELS : IMAGE_MODELS[j].apiModel # "" } }

\* Partial<EngineConfig> | null | undefined: null, undefined and {} are the
\* record without fields
PartialConfigs ==
  { [ f \in { g \in ConfigFields : c[g] # Absent } |-> c[f] ] :
      c \in [ textProvider  : Providers \cup { UnknownProvider, Absent },
              textModel     : ModelIds \cup { UnknownModel, Absent },
              imageProvider : Providers \cup { UnknownProvider, Absent },
              imageModel    : ModelIds \cup { UnknownModel, Absent } ] }

ApiVendors == { getApiVendor(p) : p \in Providers }

Usages == { Usage(i, o) : i \in 0 .. MaxUsage, o \in 0 .. MaxUsage }

\* all texts of at most MaxTextLen tokens
TextTokens == { "{", "}", "note", "null", "olc=summary" }
Texts == UNION { [ 1 .. n -> TextTokens ] : n \in 0 .. MaxTextLen }

PendingCall(fn, args) == [ fn |-> fn, args |-> args, done |-> FALSE, result |-> <<>> ]

LibCalls ==
  { PendingCall("normalizeEngineConfig", [ input |-> c ]) : c \in PartialConfigs }
  \cup { PendingCall("resolveApiModel", a) :
           a \in [ provider : Providers \cup { UnknownProvider },
                   kind     : { "text", "image" },
                   id       : ModelIds \cup WireNames \cup { UnknownModel, "" } ] }
  \cup { PendingCall("calcTextCostUsd", a) :
           a \in [ vendor   : ApiVendors \cup { UnknownProvider },
                   apiModel : { "gpt-5.2", "gpt-5.1", "gpt-4.1-mini", "gemini-2.5-pro",
                                "gemini-2.5-flash", "claude-3-5-sonnet-latest",
                                "claude-3-5-haiku-latest", "claude-sonnet",
                                UnknownModel, "toString" },
                   usage    : Usages ] }
  \cup { PendingCall("calcImageCostUsd", a) :
           a \in [ vendor     : ApiVendors \cup { UnknownProvider },
                   apiModel   : CatalogIds(IMAGE_MODELS) \cup { UnknownModel, "toString" },
                   imageCount : 0 .. MaxImages,
                   quality    : { "low", "medium", "high" },
                   usage      : { None } \cup { Some(u) : u \in Usages } ] }
  \cup { PendingCall("safeParseJson", [ text |-> t ]) : t \in Texts }
  \cup { PendingCall("callImageEdit", a) :
           a \in [ vendor   : ApiVendors \cup { UnknownProvider },
                   apiModel : CatalogIds(IMAGE_MODELS) \cup { UnknownModel } ] }

Returns(value) == lib' = [ lib EXCEPT !.done = TRUE, !.result = value ]

CallNormalizeEngineConfig ==
  /\ lib.fn = "normalizeEngineConfig" /\ ~ lib.done
  /\ Returns(normalizeEngineConfig(lib.args.input))
  /\ UNCHANGED << profile, env, pc, input, frame, resp, requestLog, lineItems, fetches, updates >>

CallResolveApiModel ==
  /\ lib.fn = "resolveApiModel" /\ ~ lib.done
  /\ Returns(resolveApiModel(lib.args.provider, lib.args.kind, lib.args.id))
  /\ UNCHANGED << profile, env, pc, input, frame, resp, requestLog, lineItems, fetches, updates >>

CallCalcTextCostUsd ==
  /\ lib.fn = "calcTextCostUsd" /\ ~ lib.done
  /\ Returns(calcTextCostUsd(lib.args.vendor, lib.args.apiModel, lib.args.usage))
  /\ UNCHANGED << profile, env, pc, input, frame, resp, requestLog, lineItems, fetches, updates >>

CallCalcImageCostUsd ==
  /\ lib.fn = "calcImageCostUsd" /\ ~ lib.done
  /\ Returns(calcImageCostUsd(lib.args.vendor, lib.args.apiModel, lib.args.imageCount,
                              lib.args.quality, lib.args.usage))
  /\ UNCHANGED << profile, env, pc, input, frame, resp, requestLog, lineItems, fetches, updates >>

CallSafeParseJson ==
  /\ lib.fn = "safeParseJson" /\ ~ lib.done
  /\ Returns(safeParseJson(lib.args.text))
  /\ UNCHANGED << profile, env, pc, input, frame, resp, requestLog, lineItems, fetches, updates >>

\* the image adapter is handed the keys of the environment it runs in; its
\* outcome is one of those the vendor can produce
CallCallImageEdit ==
  /\ lib.fn = "callImageEdit" /\ ~ lib.done
  /\ \E outcome \in callImageEdit(lib.args.vendor) : Returns(outcome)
  /\ UNCHANGED << profile, env, pc, input, frame, resp, requestLog, lineItems, fetches, updates >>

LibInit ==
  /\ lib \in LibCalls
  /\ profile = "library"
  /\ env \in Environments
  /\ lib.fn # "callImageEdit"
       => env = [ OPENAI_API_KEY |-> TRUE, GEMINI_API_KEY |-> TRUE, ANTHROPIC_API_KEY |-> TRUE ]
  /\ pc = [ r \in Requests |-> "idle" ]
  /\ input = [ r \in Requests |-> None ]
  /\ frame = [ r \in Requests |-> NewFrame ]
  /\ resp = [ r \in Requests |-> None ]
  /\ requestLog = <<>>
  /\ lineItems = EmptyBag
  /\ fetches = [ r \in Requests |-> <<>> ]
  /\ updates = [ r \in Requests |-> <<>> ]

LibNext ==
  \/ CallNormalizeEngineConfig
  \/ CallResolveApiModel
  \/ CallCalcTextCostUsd
  \/ CallCalcImageCostUsd
  \/ CallSafeParseJson
  \/ CallCallImageEdit

LibSpec == LibInit /\ [][LibNext]_vars

\* the direct call of fn has returned
Called(fn) == lib.fn = fn /\ lib.done

(***************************************************************************)
(* Vocabulary of the properties.                                           *)
(***************************************************************************)
Started(r)  == input[r] # None
Returned(r) == pc[r] = "done"             \* the handler returned a response
Rejected(r) == pc[r] = "threw"            \* the handler's promise rejected
Finished(r) == Returned(r) \/ Rejected(r)

\* the request's own log row, when it created one
HasRow(r) == frame[r].requestLogId # 0
RowOf(r)  == requestLog[frame[r].requestLogId]

\* the line items of log row id, and how many of them belong to a stage
ItemsOf(id) == { it \in BagToSet(lineItems) : it.requestId = id }

RECURSIVE SumCopies(_)
SumCopies(S) ==
  IF S = {} THEN 0
  ELSE LET it == CHOOSE x \in S : TRUE
       IN  CopiesIn(it, lineItems) + SumCopies(S \ {it})

RECURSIVE SumCost(_)
SumCost(S) ==
  IF S = {} THEN 0
  ELSE LET it == CHOOSE x \in S : TRUE
       IN  CopiesIn(it, lineItems) * it.costUsd + SumCost(S \ {it})

StageCount(id, stage) == SumCopies({ it \in ItemsOf(id) : it.stage = stage })
ItemCount(id)         == SumCopies(ItemsOf(id))

\* the vendor calls of a request at one stage
CallsAt(r, stage) == { i \in DOMAIN fetches[r] : fetches[r][i].stage = stage }

Contains(msg, part) == \E i \in DOMAIN msg : msg[i] = part

\* the raw engineConfig of the request names anthropic as image provider
SelectsAnthropicImage(r) ==
  /\ Started(r)
  /\ input[r][1].parseable
  /\ input[r][1].engineConfig.kind = "json"
  /\ "imageProvider" \in DOMAIN input[r][1].engineConfig.value
  /\ input[r][1].engineConfig.value.imageProvider = "anthropic"

\* the form passes the validation of lines 488-489
ValidForm(r) ==
  /\ Started(r)
  /\ input[r][1].parseable
  /\ Trim(input[r][1].title) # <<>>
  /\ input[r][1].image # "absent"

ConfigurationErrors ==
  { MsgNoOpenAIKey, MsgNoGeminiKey, MsgNoAnthropicKey, MsgNoVisionFallback, MsgAnthropicNoImage }

ValidationErrors == { MsgTitleRequired, MsgImageRequired }

\* the key of a vendor the normalised configuration selects is absent
SelectedKeyAbsent(r) ==
  /\ Started(r)
  /\ input[r][1].parseable
  /\ LET tv == textVendor(frame[r])
         iv == imageVendor(frame[r])
     IN  \/ "openai" \in {tv, iv}  /\ ~ env.OPENAI_API_KEY
         \/ "google" \in {tv, iv}  /\ ~ env.GEMINI_API_KEY
         \/ tv = "anthropic"       /\ ~ env.ANTHROPIC_API_KEY

(***************************************************************************)
(* C1: every RequestLog row with success = true has exactly three line     *)
(* items, one for each of VISION, CONCEPT and IMAGE_EDIT, and its          *)
(* totalCostUsd is the sum of the costUsd of those three line items.       *)
(***************************************************************************)
C1_SuccessRowHasThreeItemsAndTheirSum ==
  \A id \in DOMAIN requestLog :
     requestLog[id].success =>
        /\ \A stage \in Stages : StageCount(id, stage) = 1
        /\ ItemCount(id) = 3
        /\ requestLog[id].totalCostUsd = SumCost(ItemsOf(id))

\* a successful row whose three line items all cost something
C1_Witness ==
  \E id \in DOMAIN requestLog :
     /\ requestLog[id].success
     /\ ItemCount(id) = 3
     /\ \A it \in ItemsOf(id) : it.costUsd > 0
     /\ requestLog[id].totalCostUsd > 0

(***************************************************************************)
(* C2: when the image vendor call returns a non-success HTTP status, the   *)
(* request's log row ends with success = false and an errorMessage that    *)
(* contains the vendor's error text, and the line items of the request are *)
(* exactly VISION and CONCEPT.                                             *)
(***************************************************************************)
ImageHttpError(r) ==
  \E i \in CallsAt(r, "IMAGE_EDIT") : fetches[r][i].outcome = "http_error"

C2_ImageHttpErrorIsRecordedOnTheRow ==
  \A r \in Requests :
     (Finished(r) /\ ImageHttpError(r)) =>
        /\ HasRow(r)
        /\ RowOf(r).success = FALSE
        /\ RowOf(r).errorMessage # None
        /\ \E b \in VendorErrorBodies : Contains(RowOf(r).errorMessage[1], b)
        /\ StageCount(frame[r].requestLogId, "VISION") = 1
        /\ StageCount(frame[r].requestLogId, "CONCEPT") = 1
        /\ ItemCount(frame[r].requestLogId) = 2

(***************************************************************************)
(* C3 as stated: a request whose engineConfig selects anthropic as         *)
(* imageProvider ends with a 400-class response and no vendor call.        *)
(***************************************************************************)
C3_AnthropicImageFailsFastWith400 ==
  \A r \in Requests :
     (Finished(r) /\ SelectsAnthropicImage(r)) =>
        /\ resp[r] # None
        /\ resp[r][1].status \in 400 .. 499
        /\ fetches[r] = <<>>

(***************************************************************************)
(* C3 amended: a request whose engineConfig selects anthropic as           *)
(* imageProvider is not rejected for that: normalizeEngineConfig replaces  *)
(* its image engine by the default openai / gpt-image-1-mini before the    *)
(* checks, the 400 "Anthropic does not support image generation" response  *)
(* is never returned, and every image-edit call it issues goes to openai.  *)
(***************************************************************************)
C3_AnthropicImageIsNormalisedToDefault ==
  \A r \in Requests :
     SelectsAnthropicImage(r) =>
        /\ frame[r].cfg.imageProvider = defaultConfig.imageProvider
        /\ frame[r].cfg.imageModel = defaultConfig.imageModel
        /\ resp[r] # None => resp[r][1].error # Some(MsgAnthropicNoImage)
        /\ \A i \in CallsAt(r, "IMAGE_EDIT") :
              /\ fetches[r][i].vendor = "openai"
              /\ fetches[r][i].apiModel = "gpt-image-1-mini"

\* such a request went through the whole pipeline and returned an image
C3_Witness ==
  \E r \in Requests :
     /\ SelectsAnthropicImage(r)
     /\ Returned(r)
     /\ resp[r][1].status = 200
     /\ \E i \in CallsAt(r, "IMAGE_EDIT") : fetches[r][i].outcome = "ok"

(***************************************************************************)
(* C4 as stated: when the normalised text provider is anthropic and        *)
(* neither OPENAI_API_KEY nor GEMINI_API_KEY is set, the request ends with *)
(* a configuration error response and no vendor call.                      *)
(***************************************************************************)
AnthropicTextWithoutFallbackKey(r) ==
  /\ Started(r)
  /\ input[r][1].parseable
  /\ frame[r].cfg.textProvider = "anthropic"
  /\ ~ env.OPENAI_API_KEY
  /\ ~ env.GEMINI_API_KEY

C4_NoFallbackKeyIsAConfigurationError ==
  \A r \in Requests :
     (Finished(r) /\ AnthropicTextWithoutFallbackKey(r)) =>
        /\ resp[r] # None
        /\ resp[r][1].error # None
        /\ resp[r][1].error[1] \in ConfigurationErrors
        /\ fetches[r] = <<>>

(***************************************************************************)
(* C4 amended: when the normalised text provider is anthropic and neither  *)
(* OPENAI_API_KEY nor GEMINI_API_KEY is set, a request that passes input   *)
(* validation (non-empty title, image file present) ends with an HTTP 500  *)
(* configuration error response, and a request that fails validation ends  *)
(* with the HTTP 400 validation error; in both cases no vendor call is     *)
(* made, for every image provider and with or without ANTHROPIC_API_KEY.   *)
(***************************************************************************)
C4_NoFallbackKeyIsAConfigurationErrorOnceValid ==
  \A r \in Requests :
     (Finished(r) /\ AnthropicTextWithoutFallbackKey(r)) =>
        /\ resp[r] # None
        /\ resp[r][1].error # None
        /\ fetches[r] = <<>>
        /\ IF ValidForm(r)
             THEN /\ resp[r][1].status = 500
                  /\ resp[r][1].error[1] \in ConfigurationErrors
             ELSE /\ resp[r][1].status = 400
                  /\ resp[r][1].error[1] \in ValidationErrors

\* ANTHROPIC_API_KEY is set, so it is the image-stage check that answers
C4_Witness ==
  \E r \in Requests :
     /\ Returned(r)
     /\ AnthropicTextWithoutFallbackKey(r)
     /\ ValidForm(r)
     /\ env.ANTHROPIC_API_KEY
     /\ resp[r][1].status = 500
     /\ resp[r][1].error[1] \in { MsgNoOpenAIKey, MsgNoGeminiKey }

(***************************************************************************)
(* C5 as stated: when the key of a vendor selected by the normalised       *)
(* configuration is absent, the request fails before any vendor call and   *)
(* before any log update, and its initial RequestLog row exists.           *)
(***************************************************************************)
C5_MissingKeyStillCreatesTheRow ==
  \A r \in Requests :
     (Finished(r) /\ SelectedKeyAbsent(r)) =>
        /\ resp[r] # None
        /\ resp[r][1].status >= 400
        /\ fetches[r] = <<>>
        /\ updates[r] = <<>>
        /\ HasRow(r)
        /\ RowOf(r).success = FALSE
        /\ RowOf(r).totalCostUsd = 0
        /\ RowOf(r).latencyMs = 0

(***************************************************************************)
(* C5 amended: when the key of a vendor selected by the normalised         *)
(* configuration is absent, the request fails before any vendor call, and  *)
(* no RequestLog row is created or updated for it.                         *)
(***************************************************************************)
C5_MissingKeyCreatesNoRow ==
  \A r \in Requests :
     (Finished(r) /\ SelectedKeyAbsent(r)) =>
        /\ resp[r] # None
        /\ resp[r][1].status >= 400
        /\ fetches[r] = <<>>
        /\ updates[r] = <<>>
        /\ ~ HasRow(r)
        /\ \A id \in DOMAIN requestLog : \E q \in Requests \ {r} : frame[q].requestLogId = id
        /\ ItemsOf(0) = {}

\* a valid form answered by a credential check, the text key being set
C5_Witness ==
  \E r \in Requests :
     /\ Returned(r)
     /\ SelectedKeyAbsent(r)
     /\ ValidForm(r)
     /\ resp[r][1].status = 500
     /\ resp[r][1].error[1] = MsgNoGeminiKey
     /\ textVendor(frame[r]) = "openai"
     /\ env.OPENAI_API_KEY

(***************************************************************************)
(* C6: a request with an empty (after trimming) title or without an image  *)
(* file returns HTTP 400, creates no RequestLog row and no line item and   *)
(* makes no vendor call, whatever the engineConfig and the credentials.    *)
(***************************************************************************)
InvalidForm(r) ==
  /\ Started(r)
  /\ input[r][1].parseable
  /\ \/ Trim(input[r][1].title) = <<>>
     \/ input[r][1].image = "absent"

C6_InvalidFormIsRejectedWithoutSideEffects ==
  \A r \in Requests :
     InvalidForm(r) =>
        /\ Returned(r)
        /\ resp[r][1].status = 400
        /\ resp[r][1].error # None
        /\ resp[r][1].error[1] \in ValidationErrors
        /\ ~ HasRow(r)
        /\ fetches[r] = <<>>
        /\ updates[r] = <<>>
        /\ \A id \in DOMAIN requestLog : \E q \in Requests \ {r} : frame[q].requestLogId = id
        /\ \A it \in BagToSet(lineItems) : \E q \in Requests \ {r} : frame[q].requestLogId = it.requestId

\* a titled form without image, every key set, a non-default engineConfig
C6_Witness ==
  \E r \in Requests :
     /\ InvalidForm(r)
     /\ Trim(input[r][1].title) # <<>>
     /\ input[r][1].engineConfig.kind = "json"
     /\ \A k \in DOMAIN env : env[k]
     /\ Returned(r)
     /\ resp[r][1].error = Some(MsgImageRequired)

(***************************************************************************)
(* C7: for every request that created a RequestLog row and returned a      *)
(* response, the row was updated exactly once after its creation: by the   *)
(* success update or by the failure update of the catch block, never by    *)
(* both and never by none.                                                 *)
(***************************************************************************)
C7_ReturnedRequestUpdatedItsRowExactlyOnce ==
  \A r \in Requests :
     (Returned(r) /\ HasRow(r)) =>
        /\ Len(updates[r]) = 1
        /\ updates[r][1] = "success" => (RowOf(r).success /\ resp[r][1].status = 200)
        /\ updates[r][1] = "failure" => (~ RowOf(r).success /\ resp[r][1].status = 500)

\* the success update threw and the failure update was the one applied
C7_Witness ==
  \E r \in Requests :
     /\ Returned(r)
     /\ HasRow(r)
     /\ ItemCount(frame[r].requestLogId) = 3
     /\ frame[r].e = Some(MsgStore)
     /\ updates[r] = << "failure" >>

(***************************************************************************)
(* C8: for any failure raised after the RequestLog row exists, the catch   *)
(* block updates the row to success = false with the error message and the *)
(* elapsed latency, and the caller receives {error} with HTTP 500.         *)
(***************************************************************************)
C8_FailureAfterRowIsRecordedAndAnswered ==
  \A r \in Requests :
     (Finished(r) /\ HasRow(r) /\ frame[r].e # None) =>
        /\ RowOf(r).success = FALSE
        /\ RowOf(r).errorMessage = frame[r].e
        /\ RowOf(r).latencyMs > 0
        /\ resp[r] = Some(bad(frame[r].e[1], 500))

(***************************************************************************)
(* C9: a request returns the success response {concept_used, image_base64} *)
(* only if its three vendor calls succeeded, its three line items were     *)
(* persisted and its log row was updated to success = true; every other    *)
(* finished request ended in an error and delivered no image.              *)
(***************************************************************************)
SuccessResponse(r) == resp[r] # None /\ resp[r][1].status = 200

StageOrder == << "VISION", "CONCEPT", "IMAGE_EDIT" >>

C10_VendorCallsInOrderWithoutRetry ==
  \A r \in Requests :
     /\ Len(fetches[r]) <= 3
     /\ \A i \in DOMAIN fetches[r] :
           /\ fetches[r][i].stage = StageOrder[i]
           /\ i < Len(fetches[r]) => fetches[r][i].outcome = "ok"

\* a request that finished after its concept call had failed
C10_Witness ==
  \E r \in Requests :
     /\ Finished(r)
     /\ Len(fetches[r]) = 2
     /\ fetches[r][1].outcome = "ok"
     /\ fetches[r][2].outcome # "ok"

(***************************************************************************)
(* C11: a stage's cost line item is persisted after that stage's vendor    *)
(* call returned and before the next stage's vendor call is issued (for    *)
(* the last stage: before the success update); once persisted, a line item *)
(* is never updated or deleted, also when a later stage fails.             *)
(***************************************************************************)
\* the stage's vendor call of request r returned successfully
CallOk(r, stage) == \E i \in CallsAt(r, stage) : fetches[r][i].outcome = "ok"

ItemsFollowCallsAndPrecedeNextStage ==
  \A r \in Requests :
     /\ HasRow(r) =>
          \A stage \in Stages :
             StageCount(frame[r].requestLogId, stage) > 0 => CallOk(r, stage)
     /\ CallsAt(r, "CONCEPT") # {} =>
          HasRow(r) /\ StageCount(frame[r].requestLogId, "VISION") = 1
     /\ CallsAt(r, "IMAGE_EDIT") # {} =>
          HasRow(r) /\ StageCount(frame[r].requestLogId, "CONCEPT") = 1
     /\ updates[r] = << "success" >> =>
          StageCount(frame[r].requestLogId, "IMAGE_EDIT") = 1

\* every step leaves each persisted line item in the table, unchanged
LineItemsOnlyGrow ==
  \A it \in BagToSet(lineItems) : CopiesIn(it, lineItems') >= CopiesIn(it, lineItems)

C11_LineItemsPersistBetweenStagesAndStay ==
  [] ItemsFollowCallsAndPrecedeNextStage /\ [][LineItemsOnlyGrow]_vars

\* the image call failed, the failure was recorded, and the two earlier
\* line items are still in the table
C11_Witness ==
  \E r \in Requests :
     /\ Returned(r)
     /\ ImageHttpError(r)
     /\ updates[r] = << "failure" >>
     /\ StageCount(frame[r].requestLogId, "VISION") = 1
     /\ StageCount(frame[r].requestLogId, "CONCEPT") = 1
     /\ \A it \in ItemsOf(frame[r].requestLogId) : it.costUsd > 0

(***************************************************************************)
(* C12: for any interleaving of concurrent requests, every line item       *)
(* carries the id of the RequestLog row of the request that wrote it,      *)
(* every log update lands on the requester's own row, and the row and the  *)
(* line items of each request are what that request's own inputs, vendor   *)
(* answers and store outcomes determine, whatever the other requests did.  *)
(***************************************************************************)
\* the line items the request has written so far, computed from its own
\* locals: the VISION item is written in the step that sets visionJson, the
\* CONCEPT item in the step that sets direction
OwnVisionItem(r) ==
  LET f == frame[r]
  IN  TextLineItem(f.requestLogId, "VISION", f.visionEngine.provider, f.visionEngine.apiModel,
                   f.visionCall[1].usage, f.vCost)

OwnConceptItem(r) ==
  LET f == frame[r]
  IN  TextLineItem(f.requestLogId, "CONCEPT", f.cfg.textProvider, textApiModel(f),
                   f.conceptCall[1].usage, f.cCost)

OwnImageItem(r) ==
  LET f == frame[r]
  IN  ImageLineItem(f.requestLogId, f.cfg.imageProvider, imageApiModel(f), f.imgCost)

\* the row of the request as its own history determines it
OwnRow(r) ==
  LET f       == frame[r]
      created == NewRequestLogRow(f.requestLogId, f)
  IN  CASE updates[r] = <<>>            -> created
        [] updates[r] = << "success" >> -> SuccessData(created, f)
        [] updates[r] = << "failure" >> ->
             FailureData(created, [ f EXCEPT !.elapsed = @ - 1 ], f.e[1])
        [] OTHER -> created

C12_ConcurrentRequestsAreIndependent ==
  /\ \A r \in Requests :
       HasRow(r) =>
         LET id == frame[r].requestLogId
         IN  /\ id \in DOMAIN requestLog
             /\ \A q \in Requests \ {r} : frame[q].requestLogId # id
             /\ Len(updates[r]) <= 1
             /\ RowOf(r) = OwnRow(r)
             /\ \A it \in ItemsOf(id) : CopiesIn(it, lineItems) = 1
             /\ ItemsOf(id) \subseteq
                  (IF frame[r].visionJson # None THEN { OwnVisionItem(r) } ELSE {})
                  \cup (IF frame[r].direction # None THEN { OwnConceptItem(r) } ELSE {})
                  \cup (IF frame[r].imgCall # None THEN { OwnImageItem(r) } ELSE {})
             /\ frame[r].visionJson # None => OwnVisionItem(r) \in ItemsOf(id)
             /\ frame[r].direction # None => OwnConceptItem(r) \in ItemsOf(id)
             /\ updates[r] = << "success" >> => OwnImageItem(r) \in ItemsOf(id)
  /\ \A id \in DOMAIN requestLog : \E r \in Requests : frame[r].requestLogId = id
  /\ \A it \in BagToSet(lineItems) : \E r \in Requests : frame[r].requestLogId = it.requestId

\* two requests ran interleaved: the one that started second created its row
\* first, one succeeded and the other one failed after its vision stage
C12_Witness ==
  /\ profile = "concurrent"
  /\ \E r, q \in Requests :
       /\ r < q
       /\ Returned(r) /\ Returned(q)
       /\ HasRow(r) /\ HasRow(q)
       /\ frame[q].requestLogId < frame[r].requestLogId
       /\ updates[r] = << "success" >>
       /\ updates[q] = << "failure" >>
       /\ ItemCount(frame[r].requestLogId) = 3
       /\ ItemCount(frame[q].requestLogId) = 1

(***************************************************************************)
(* C13: for every input (null, undefined, empty, partial, or carrying      *)
(* unknown provider or model values) normalizeEngineConfig returns a       *)
(* config with all four fields whose (textProvider, textModel) is an       *)
(* enabled TEXT_MODELS entry, whose (imageProvider, imageModel) is an      *)
(* enabled IMAGE_MODELS entry, and whose imageProvider is not anthropic.   *)
(***************************************************************************)
C13_NormalizedConfigIsCatalogConsistent ==
  Called("normalizeEngineConfig") =>
     /\ DOMAIN lib.result = ConfigFields
     /\ isValidTextModel(lib.result.textProvider, lib.result.textModel)
     /\ isValidImageModel(lib.result.imageProvider, lib.result.imageModel)
     /\ lib.result.imageProvider # "anthropic"

\* a valid text pair was kept while an anthropic image provider carrying a
\* valid openai image model was replaced by the default image engine
C13_Witness ==
  /\ Called("normalizeEngineConfig")
  /\ DOMAIN lib.args.input = ConfigFields
  /\ lib.args.input.imageProvider = "anthropic"
  /\ lib.args.input.imageModel = "gpt-image-1"
  /\ lib.args.input.textProvider = "anthropic"
  /\ lib.result.textProvider = "anthropic"
  /\ lib.result.imageProvider = "openai"
  /\ lib.result.imageModel = "gpt-image-1-mini"

(***************************************************************************)
(* C14 as stated: resolveApiModel is total and idempotent: for any         *)
(* (provider, kind, id) it returns a non-empty string, resolving the       *)
(* result again returns the result, and the result is id itself whenever   *)
(* no enabled catalog entry with an apiModel override matches.             *)
(***************************************************************************)
\* an enabled entry of the kind's catalog with an apiModel override matches
OverrideMatches(provider, kind, id) ==
  LET list == IF kind = "text" THEN TEXT_MODELS ELSE IMAGE_MODELS
  IN  \E i \in DOMAIN list :
         /\ list[i].enabled
         /\ list[i].provider = provider
         /\ list[i].kind = kind
         /\ list[i].id = id
         /\ list[i].apiModel # ""

ResolveIsIdempotentAndFallsBackToId ==
  LET a == lib.args
  IN  /\ resolveApiModel(a.provider, a.kind, lib.result) = lib.result
      /\ ~ OverrideMatches(a.provider, a.kind, a.id) => lib.result = a.id

C14_ResolveIsTotalIdempotentAndNonEmpty ==
  Called("resolveApiModel") =>
     /\ lib.result # ""
     /\ ResolveIsIdempotentAndFallsBackToId

(***************************************************************************)
(* C14 amended: resolveApiModel is total and idempotent: resolving the     *)
(* result again returns the result, the result is id itself whenever no    *)
(* enabled catalog entry with an apiModel override matches, and the result *)
(* is a non-empty string for every non-empty id; for the empty id the      *)
(* result is the empty string.                                             *)
(***************************************************************************)
C14_ResolveIsTotalIdempotentAndNonEmptyForNonEmptyId ==
  Called("resolveApiModel") =>
     /\ ResolveIsIdempotentAndFallsBackToId
     /\ lib.args.id # "" => lib.result # ""
     /\ lib.args.id = "" => lib.result = ""

\* an id with an override was resolved to its wire name, which resolves to
\* itself
C14_Witness ==
  /\ Called("resolveApiModel")
  /\ lib.args = [ provider |-> "anthropic", kind |-> "text", id |-> "claude-sonnet" ]
  /\ lib.result = "claude-3-5-sonnet-latest"
  /\ resolveApiModel("anthropic", "text", lib.result) = lib.result

(***************************************************************************)
(* C15: calcTextCostUsd is monotonic non-decreasing in usage.input and in  *)
(* usage.output, the rounding to 6 decimals included, and returns exactly  *)
(* 0 for every (vendor, model) pair absent from TEXT_RATES.                *)
(***************************************************************************)
\* TEXT_RATES has a row of its own for the pair
HasTextRate(vendor, apiModel) == RateKey(vendor, apiModel) \notin { "", "inherited" }

\* a <= b on numbers: false as soon as one side is NaN
Leq(a, b) == ~ IsNaN(a) /\ ~ IsNaN(b) /\ a <= b

C15_TextCostIsMonotonicAndZeroWhenUnpriced ==
  Called("calcTextCostUsd") =>
     LET a == lib.args
     IN  /\ \A u \in Usages :
              (u.input >= a.usage.input /\ u.output >= a.usage.output) =>
                 Leq(lib.result, calcTextCostUsd(a.vendor, a.apiModel, u))
         /\ ~ HasTextRate(a.vendor, a.apiModel) => lib.result = 0

\* for priced pairs and for names no object has, the claim's statement holds
C15_HoldsOutsideInheritedNames ==
  (Called("calcTextCostUsd") /\ lib.args.apiModel \notin ObjectPrototypeNames) =>
     LET a == lib.args
     IN  /\ \A u \in Usages :
              (u.input >= a.usage.input /\ u.output >= a.usage.output) =>
                 Leq(lib.result, calcTextCostUsd(a.vendor, a.apiModel, u))
         /\ ~ HasTextRate(a.vendor, a.apiModel) => lib.result = 0

(***************************************************************************)
(* C16: for every (vendor, model) combination absent from the pricing      *)
(* tables, calcTextCostUsd and calcImageCostUsd both return exactly 0, for *)
(* every usage, imageCount and quality.                                    *)
(***************************************************************************)
\* IMAGE_PER_IMAGE has a row of its own for the pair
HasImagePrice(vendor, apiModel) == ImageKey(vendor, apiModel) # ""

C16_UnpricedCombinationsCostZero ==
  /\ (Called("calcTextCostUsd") /\ ~ HasTextRate(lib.args.vendor, lib.args.apiModel)) =>
        lib.result = 0
  /\ (Called("calcImageCostUsd") /\ ~ HasImagePrice(lib.args.vendor, lib.args.apiModel)) =>
        lib.result = 0

\* the statement restricted to calcImageCostUsd: the google branch charges
\* the input tokens of an unpriced model
C16_UnpricedImageCombinationsCostZero ==
  (Called("calcImageCostUsd") /\ ~ HasImagePrice(lib.args.vendor, lib.args.apiModel)) =>
     lib.result = 0

\* outside the google branch an unpriced image model costs 0
C16_HoldsOutsideGoogleImages ==
  ( /\ Called("calcImageCostUsd")
    /\ ~ HasImagePrice(lib.args.vendor, lib.args.apiModel)
    /\ lib.args.vendor # "google" ) => lib.result = 0

(***************************************************************************)
(* C17: calcImageCostUsd equals the reference policy for every input, in   *)
(* USD to 6 decimals: for openai, (the price of the requested quality      *)
(* tier, else the low tier price, else 0) times imageCount; for google,    *)
(* fixedPerImage times imageCount plus usage.input / 1e6 times the         *)
(* gemini-2.5-flash input rate, independent of usage.output; for any other *)
(* vendor, 0.                                                              *)
(***************************************************************************)
\* the price per image of a tier, in micro-dollars; 0 when the table has no
\* row for the model or the row does not price the tier
TierPrice(vendor, apiModel, tier) ==
  IF ImageKey(vendor, apiModel) = "" THEN 0
  ELSE IMAGE_PER_IMAGE[vendor][ImageKey(vendor, apiModel)][tier]

\* the policy, in hundredths of a micro-dollar
ReferenceImageCost(vendor, apiModel, imageCount, quality, inputTokens) ==
  CASE vendor = "openai" ->
         LET requested == TierPrice("openai", apiModel, quality)
             low       == TierPrice("openai", apiModel, "low")
         IN  (IF requested # 0 THEN requested ELSE low) * imageCount * 100
    [] vendor = "google" ->
         TierPrice("google", apiModel, "fixedPerImage") * imageCount * 100
         + inputTokens * TEXT_RATES.google.gemini25flash.inputPerM
    [] OTHER -> 0

IsJsonObject(t) == JSONparse(t).ok /\ t # << "null" >>

\* the places of the text where a JSON object stands
ObjectSpans(t) ==
  { span \in (1 .. Len(t)) \X (1 .. Len(t)) :
      span[1] <= span[2] /\ IsJsonObject(SubSeq(t, span[1], span[2])) }

\* commentary around exactly one JSON object
WrapsOneObject(t) == ~ JSONparse(t).ok /\ Cardinality(ObjectSpans(t)) = 1

WrappedObject(t) ==
  LET span == CHOOSE sp \in ObjectSpans(t) : TRUE
  IN  JSONparse(SubSeq(t, span[1], span[2])).value

\* no part of the text is JSON
NoJson(t) ==
  \A i, j \in 1 .. Len(t) : i <= j => ~ JSONparse(SubSeq(t, i, j)).ok

C18_SafeParseJsonRecoversTheObject ==
  Called("safeParseJson") =>
     LET t == lib.args.text
     IN  /\ IsJsonObject(t) => lib.result = JSONparse(t).value
         /\ WrapsOneObject(t) => lib.result = WrappedObject(t)
         /\ NoJson(t) => lib.result = JsNull

\* the commentary of the text, the object left out, has no brace
BraceFreeCommentary(t) ==
  \A span \in ObjectSpans(t) :
     \A i \in DOMAIN t : (i < span[1] \/ i > span[2]) => t[i] \notin { "{", "}" }

\* with brace-free commentary the object is recovered
C18_HoldsForBraceFreeCommentary ==
  Called("safeParseJson") =>
     LET t == lib.args.text
     IN  /\ IsJsonObject(t) => lib.result = JSONparse(t).value
         /\ (WrapsOneObject(t) /\ BraceFreeCommentary(t)) => lib.result = WrappedObject(t)
         /\ NoJson(t) => lib.result = JsNull

(***************************************************************************)
(* C19: a VISION or CONCEPT vendor call that succeeds but returns text     *)
(* that cannot be parsed as JSON never fails the request: the stage's      *)
(* default object is substituted and the pipeline proceeds to the next     *)
(* stage; only a missing image payload in the IMAGE_EDIT response is fatal.*)
(***************************************************************************)
\* neither JSON.parse of the text nor of its brace match succeeds
Unparseable(text) ==
  /\ ~ JSONparse(text).ok
  /\ BraceMatch(text) # None => ~ JSONparse(BraceMatch(text)[1]).ok

DefaultVisionJson ==
  [ type |-> "object", one_line_concept |-> None, immutable_elements |-> Some(<<>>) ]

DefaultDirection(userConcept) ==
  [ type |-> "object",
    one_line_concept |-> Some(IF userConcept # <<>> THEN userConcept ELSE DefaultDirectionConcept),
    immutable_elements |-> None ]

ParseFailureMessages ==
  { MsgImageParse, << "Gemini image response parse failed (text: ", "none" >> }

C19_UnparseableTextIsReplacedByDefaults ==
  \A r \in Requests :
     LET f == frame[r]
     IN  /\ (f.visionCall # None /\ Unparseable(f.visionCall[1].text)) =>
              /\ f.visionJson # None => f.visionJson = Some(DefaultVisionJson)
              /\ (f.e # None /\ CallsAt(r, "CONCEPT") = {}) => f.e = Some(MsgStore)
              /\ f.visionJson # None => (pc[r] = "concept" \/ CallsAt(r, "CONCEPT") # {})
         /\ (f.conceptCall # None /\ Unparseable(f.conceptCall[1].text)) =>
              /\ f.direction # None => f.direction = Some(DefaultDirection(f.userConcept))
              /\ (f.e # None /\ CallsAt(r, "IMAGE_EDIT") = {}) => f.e = Some(MsgStore)
              /\ f.direction # None => (pc[r] = "image" \/ CallsAt(r, "IMAGE_EDIT") # {})
         /\ f.e # None /\ f.e[1] \in ParseFailureMessages =>
              \E i \in CallsAt(r, "IMAGE_EDIT") : fetches[r][i].outcome = "no_image"
         /\ (\E i \in CallsAt(r, "IMAGE_EDIT") : fetches[r][i].outcome = "no_image") =>
              /\ f.e # None /\ f.e[1] \in ParseFailureMessages
              /\ ~ SuccessResponse(r)

\* both text stages returned prose, and the request still returned an image
C19_Witness ==
  \E r \in Requests :
     /\ SuccessResponse(r)
     /\ Unparseable(frame[r].visionCall[1].text)
     /\ Unparseable(frame[r].conceptCall[1].text)
     /\ frame[r].visionJson = Some(DefaultVisionJson)
     /\ frame[r].direction = Some(DefaultDirection(frame[r].userConcept))
     /\ RowOf(r).success

(***************************************************************************)
(* C20: the vision engine is the configured text engine unless the text    *)
(* provider is anthropic; when it is anthropic, vision is served by openai *)
(* if OPENAI_API_KEY is present, otherwise by gemini if GEMINI_API_KEY is  *)
(* present, otherwise the request fails; the vision call is never sent to  *)
(* anthropic.                                                              *)
(***************************************************************************)
\* the request has got past the choice of its vision engine
VisionEngineChosen(r) == frame[r].visionEngine.ok

C20_VisionEngineFollowsTheFallbackOrder ==
  \A r \in Requests :
     LET f  == frame[r]
         ve == f.visionEngine
     IN  /\ VisionEngineChosen(r) =>
              /\ f.cfg.textProvider # "anthropic" =>
                   /\ ve.provider = f.cfg.textProvider
                   /\ ve.vendor = textVendor(f)
                   /\ ve.apiModel = textApiModel(f)
              /\ (f.cfg.textProvider = "anthropic" /\ env.OPENAI_API_KEY) =>
                   /\ ve.provider = "openai"
                   /\ ve.vendor = "openai"
                   /\ ve.apiModel = "gpt-4.1-mini"
              /\ (f.cfg.textProvider = "anthropic" /\ ~ env.OPENAI_API_KEY /\ env.GEMINI_API_KEY) =>
                   /\ ve.provider = "gemini"
                   /\ ve.vendor = "google"
                   /\ ve.apiModel = "gemini-2.5-flash"
              /\ f.cfg.textProvider = "anthropic" => (env.OPENAI_API_KEY \/ env.GEMINI_API_KEY)
         /\ (Finished(r) /\ AnthropicTextWithoutFallbackKey(r)) =>
              /\ ~ SuccessResponse(r)
              /\ fetches[r] = <<>>
         /\ \A i \in CallsAt(r, "VISION") :
              /\ fetches[r][i].vendor = ve.vendor
              /\ fetches[r][i].apiModel = ve.apiModel
              /\ fetches[r][i].vendor # "anthropic"

\* anthropic text without OPENAI_API_KEY: the vision call went to gemini and
\* the concept call to anthropic
C20_Witness ==
  \E r \in Requests :
     /\ frame[r].cfg.textProvider = "anthropic"
     /\ ~ env.OPENAI_API_KEY
     /\ Len(fetches[r]) >= 2
     /\ fetches[r][1] = [ stage |-> "VISION", vendor |-> "google",
                          apiModel |-> "gemini-2.5-flash", outcome |-> "ok" ]
     /\ fetches[r][2].stage = "CONCEPT"
     /\ fetches[r][2].vendor = "anthropic"

(***************************************************************************)
(* C21: the concept_used value returned and stored on success is the       *)
(* concept model's one_line_concept when it is present and non-empty after *)
(* trimming, otherwise the user-supplied concept when non-empty, otherwise *)
(* one fixed default phrase (the phrase of line 636).                      *)
(***************************************************************************)
\* the one_line_concept of the concept model's own output, trimmed; <<>>
\* when the output has none
ModelOneLineConcept(text) ==
  LET v == safeParseJson(text)
  IN  IF v.one_line_concept = None THEN <<>> ELSE Trim(v.one_line_concept[1])

ConceptUsedPolicy(text, userConcept, phrase) ==
  IF ModelOneLineConcept(text) # <<>> THEN ModelOneLineConcept(text)
  ELSE IF userConcept # <<>> THEN userConcept
  ELSE phrase

C21_ConceptUsedFollowsThePreferenceOrder ==
  \A r \in Requests :
     SuccessResponse(r) =>
        LET expected == ConceptUsedPolicy(frame[r].conceptCall[1].text, frame[r].userConcept,
                                          DefaultConceptUsed)
        IN  /\ resp[r][1].concept_used = Some(expected)
            /\ RowOf(r).conceptUsed = Some(expected)

\* the value returned is the value stored, and it follows the order with
\* two default phrases: the phrase of line 622 when the concept model's
\* text is not JSON, the phrase of line 636 when it is JSON without a
\* usable one_line_concept
C21_HoldsWithTwoDefaultPhrases ==
  \A r \in Requests :
     SuccessResponse(r) =>
        LET text     == frame[r].conceptCall[1].text
            phrase   == IF safeParseJson(text).type = "null"
                          THEN DefaultDirectionConcept ELSE DefaultConceptUsed
            expected == ConceptUsedPolicy(text, frame[r].userConcept, phrase)
        IN  /\ resp[r][1].concept_used = Some(expected)
            /\ RowOf(r).conceptUsed = Some(expected)

(***************************************************************************)
(* C22: a call of the image adapter for the anthropic vendor ends, for     *)
(* every model name and whatever keys are set, in the failure "Anthropic   *)
(* does not support image generation/editing", and no network request is   *)
(* made for it.                                                            *)
(***************************************************************************)
C22_AnthropicImageEditFailsWithoutNetwork ==
  (Called("callImageEdit") /\ lib.args.vendor = "anthropic")
     => /\ lib.result.outcome # "ok"
        /\ lib.result.error = MsgAnthropicNoImage
        /\ ~ lib.result.fetched
        /\ lib.result.b64 = ""

C22_Witness ==
  /\ Called("callImageEdit")
  /\ lib.args.vendor = "anthropic"
  /\ lib.args.apiModel \in CatalogIds(IMAGE_MODELS)
  /\ env.OPENAI_API_KEY /\ env.GEMINI_API_KEY /\ env.ANTHROPIC_API_KEY
  /\ lib.result = Threw(FALSE, "unsupported", MsgAnthropicNoImage)

(***************************************************************************)
(* C23: a request whose engineConfig field is absent or is not parseable   *)
(* JSON is processed with exactly the default configuration (openai /      *)
(* gpt-4.1-mini for text, openai / gpt-image-1-mini for image) and is not  *)
(* rejected for that reason: a valid form with OPENAI_API_KEY set goes on  *)
(* to create its log row, which records the default engines, and every     *)
(* vendor call it makes is an openai call with the default model.          *)
(***************************************************************************)
NoUsableEngineConfig(r) ==
  /\ Started(r)
  /\ input[r][1].parseable
  /\ input[r][1].engineConfig.kind \in { "absent", "malformed" }

C23_MissingOrMalformedConfigMeansDefaults ==
  \A r \in Requests :
     NoUsableEngineConfig(r) =>
        /\ frame[r].cfg = defaultConfig
        /\ (resp[r] # None /\ resp[r][1].error # None /\ ~ HasRow(r)) =>
              \/ ~ ValidForm(r) /\ resp[r][1].error[1] \in ValidationErrors
              \/ ~ env.OPENAI_API_KEY /\ resp[r][1].error[1] = MsgNoOpenAIKey
              \/ resp[r][1].error[1] = MsgStore       \* the row could not be created
        /\ (ValidForm(r) /\ env.OPENAI_API_KEY) => pc[r] # "done" \/ HasRow(r) \/ frame[r].e = Some(MsgStore)
        /\ HasRow(r) =>
              /\ RowOf(r).textProvider = "openai" /\ RowOf(r).textModel = "gpt-4.1-mini"
              /\ RowOf(r).imageProvider = "openai" /\ RowOf(r).imageModel = "gpt-image-1-mini"
        /\ \A i \in DOMAIN fetches[r] :
              /\ fetches[r][i].vendor = "openai"
              /\ fetches[r][i].apiModel =
                   (IF fetches[r][i].stage = "IMAGE_EDIT" THEN "gpt-image-1-mini" ELSE "gpt-4.1-mini")

\* a request with an unparseable engineConfig that returned its image
C23_Witness ==
  \E r \in Requests :
     /\ NoUsableEngineConfig(r)
     /\ input[r][1].engineConfig.kind = "malformed"
     /\ Returned(r)
     /\ SuccessResponse(r)
     /\ frame[r].cfg = defaultConfig

(***************************************************************************)
(* C24: every outbound vendor call of the handler goes to a vendor whose   *)
(* API key is set in the environment: no request is sent to openai without *)
(* OPENAI_API_KEY, to google without GEMINI_API_KEY or to anthropic        *)
(* without ANTHROPIC_API_KEY, at any of the three stages.                  *)
(***************************************************************************)
KeyIsSet(vendor) ==
  CASE vendor = "openai"    -> env.OPENAI_API_KEY
    [] vendor = "google"    -> env.GEMINI_API_KEY
    [] vendor = "anthropic" -> env.ANTHROPIC_API_KEY
    [] OTHER                -> FALSE

C24_NoVendorCallWithoutItsKey ==
  \A r \in Requests :
     \A i \in DOMAIN fetches[r] : KeyIsSet(fetches[r][i].vendor)

\* OPENAI_API_KEY is unset: the vision step fell back to gemini, the concept
\* step went to anthropic and the image step to gemini
C24_Witness ==
  \E r \in Requests :
     /\ ~ env.OPENAI_API_KEY
     /\ Len(fetches[r]) = 3
     /\ fetches[r][1].vendor = "google"
     /\ fetches[r][2].vendor = "anthropic"
     /\ fetches[r][3].vendor = "google"

(***************************************************************************)
(* C25: in every state between the creation of a request's RequestLog row  *)
(* and its final update the row is as created: success = false,            *)
(* totalCostUsd = 0, latencyMs = 0, no error message and no concept_used.  *)
(* The line items of the row at such a point are those of the stages whose *)
(* vendor call has succeeded, at most one per stage and in pipeline order, *)
(* so stopping the handler there leaves a failed row with partial items.   *)
(***************************************************************************)
BeforeFinalUpdate(r) == HasRow(r) /\ updates[r] = <<>>

C25_RowStaysAsCreatedUntilTheFinalUpdate ==
  \A r \in Requests :
     BeforeFinalUpdate(r) =>
        LET id == frame[r].requestLogId
        IN  /\ RowOf(r) = NewRequestLogRow(id, frame[r])
            /\ RowOf(r).success = FALSE
            /\ RowOf(r).totalCostUsd = 0
            /\ RowOf(r).latencyMs = 0
            /\ \A stage \in Stages :
                  /\ StageCount(id, stage) <= 1
                  /\ StageCount(id, stage) = 1 =>
                       \E i \in CallsAt(r, stage) : fetches[r][i].outcome = "ok"
            /\ StageCount(id, "CONCEPT") = 1 => StageCount(id, "VISION") = 1
            /\ StageCount(id, "IMAGE_EDIT") = 1 => StageCount(id, "CONCEPT") = 1

\* the image stage is about to start: two paid line items exist, the local
\* total is positive and the row still shows nothing of it
C25_Witness ==
  \E r \in Requests :
     /\ BeforeFinalUpdate(r)
     /\ pc[r] = "image"
     /\ ItemCount(frame[r].requestLogId) = 2
     /\ frame[r].totalCostUsd > 0
     /\ RowOf(r).totalCostUsd = 0
     /\ ~ RowOf(r).success

(***************************************************************************)
(* C26: the VISION line item of a request records the provider and the     *)
(* resolved model of the engine its vision call went to (the openai or     *)
(* gemini fallback when the text provider is anthropic, the configured     *)
(* text engine otherwise) and its cost is the text cost for that engine's  *)
(* vendor and model; the CONCEPT line item records the configured text     *)
(* provider with its resolved model, and its cost is computed for them.    *)
(***************************************************************************)
UsageOfItem(it) ==
  [ input |-> it.inputTokens[1], output |-> it.outputTokens[1], total |-> it.totalTokens[1] ]

ItemMatchesCall(it, call) ==
  /\ call.outcome = "ok"
  /\ call.vendor = getApiVendor(it.provider)
  /\ call.apiModel = it.model
  /\ it.costUsd = calcTextCostUsd(call.vendor, call.apiModel, UsageOfItem(it))

C26_TextLineItemsRecordTheEngineCalled ==
  \A r \in Requests :
     HasRow(r) =>
        \A it \in ItemsOf(frame[r].requestLogId) :
           /\ it.stage = "VISION" =>
                /\ \E i \in CallsAt(r, "VISION") : ItemMatchesCall(it, fetches[r][i])
                /\ IF frame[r].cfg.textProvider = "anthropic"
                     THEN \/ it.provider = "openai" /\ it.model = "gpt-4.1-mini"
                          \/ it.provider = "gemini" /\ it.model = "gemini-2.5-flash"
                     ELSE /\ it.provider = frame[r].cfg.textProvider
                          /\ it.model = resolveApiModel(frame[r].cfg.textProvider, "text",
                                                        frame[r].cfg.textModel)
           /\ it.stage = "CONCEPT" =>
                /\ \E i \in CallsAt(r, "CONCEPT") : ItemMatchesCall(it, fetches[r][i])
                /\ it.provider = frame[r].cfg.textProvider
                /\ it.model = resolveApiModel(frame[r].cfg.textProvider, "text",
                                              frame[r].cfg.textModel)

\* an anthropic text engine: the VISION item names the openai fallback, the
\* CONCEPT item names anthropic, and both carry a cost
C26_Witness ==
  \E r \in Requests :
     /\ HasRow(r)
     /\ frame[r].cfg.textProvider = "anthropic"
     /\ \E v, c \in ItemsOf(frame[r].requestLogId) :
           /\ v.stage = "VISION" /\ v.provider = "openai" /\ v.costUsd > 0
           /\ c.stage = "CONCEPT" /\ c.provider = "anthropic" /\ c.costUsd > 0

(***************************************************************************)
(* C27: the failure update of the catch block changes only success,        *)
(* errorMessage and latencyMs of the request's log row.  After a failed    *)
(* request the row's totalCostUsd is still 0 and its conceptUsed is still  *)
(* null, even when VISION and CONCEPT line items with a non-zero cost      *)
(* exist for it; every other column is as it was created.                  *)
(***************************************************************************)
FailureUpdated(r) == HasRow(r) /\ updates[r] = << "failure" >>

FailureUpdateColumns == { "success", "errorMessage", "latencyMs" }

FailedRowKeepsItsOtherColumns ==
  \A r \in Requests :
     FailureUpdated(r) =>
        LET id      == frame[r].requestLogId
            created == NewRequestLogRow(id, frame[r])
        IN  /\ RowOf(r).totalCostUsd = 0
            /\ RowOf(r).conceptUsed = None
            /\ \A col \in DOMAIN created \ FailureUpdateColumns : RowOf(r)[col] = created[col]
            /\ RowOf(r).success = FALSE
            /\ RowOf(r).errorMessage = frame[r].e

FailureUpdateWritesThreeColumns ==
  \A r \in Requests :
     (HasRow(r) /\ updates'[r] = Append(updates[r], "failure")) =>
        LET id == frame[r].requestLogId
        IN  /\ \A col \in DOMAIN requestLog[id] \ FailureUpdateColumns :
                  requestLog'[id][col] = requestLog[id][col]
            /\ \A other \in DOMAIN requestLog \ {id} : requestLog'[other] = requestLog[other]
            /\ lineItems' = lineItems

C27_FailureUpdateLeavesTotalAndConcept ==
  /\ [] FailedRowKeepsItsOtherColumns
  /\ [][FailureUpdateWritesThreeColumns]_vars

\* the image call failed after two paid stages: the row is marked failed
\* and shows a total of 0 beside line items worth more than 0
C27_Witness ==
  \E r \in Requests :
     /\ FailureUpdated(r)
     /\ ItemCount(frame[r].requestLogId) = 2
     /\ \A it \in ItemsOf(frame[r].requestLogId) : it.costUsd > 0
     /\ frame[r].conceptUsed # None
     /\ RowOf(r).totalCostUsd = 0
     /\ RowOf(r).conceptUsed = None
     /\ RowOf(r).latencyMs > 0

(***************************************************************************)
(* C28: inside the handler the "no vision fallback credential" error of    *)
(* chooseVisionEngine is unreachable: at the point where chooseVisionEngine*)
(* is called the credential checks have passed, so the key of the image    *)
(* vendor (openai or google) is present and a fallback exists; and the     *)
(* anthropic-image 400 branch is unreachable, because the normalised       *)
(* configuration never has anthropic as image provider.                    *)
(***************************************************************************)
\* the credential checks have passed and chooseVisionEngine is about to be
\* called, or has been called
PastKeyCheck(r) == pc[r] = "createLog" \/ HasRow(r) \/ fetches[r] # <<>>

C28_NoFallbackErrorAndAnthropicImageBranchAreUnreachable ==
  \A r \in Requests :
     /\ frame[r].cfg.imageProvider # "anthropic"
     /\ imageVendor(frame[r]) \in { "openai", "google" }
     /\ PastKeyCheck(r) =>
          /\ env.OPENAI_API_KEY \/ env.GEMINI_API_KEY
          /\ KeyIsSet(imageVendor(frame[r]))
          /\ chooseVisionEngine(frame[r].cfg).ok
     /\ HasRow(r) => frame[r].visionEngine.ok
     /\ frame[r].e \notin { Some(MsgNoVisionFallback), Some(MsgAnthropicNoImage) }
     /\ resp[r] # None =>
          resp[r][1].error \notin { Some(MsgNoVisionFallback), Some(MsgAnthropicNoImage) }
     /\ HasRow(r) =>
          RowOf(r).errorMessage \notin { Some(MsgNoVisionFallback), Some(MsgAnthropicNoImage) }

\* an anthropic text engine without OPENAI_API_KEY: the gemini image key
\* that the checks required is the one the vision fallback uses
C28_Witness ==
  \E r \in Requests :
     /\ HasRow(r)
     /\ frame[r].cfg.textProvider = "anthropic"
     /\ ~ env.OPENAI_API_KEY
     /\ env.GEMINI_API_KEY
     /\ frame[r].visionEngine.ok
     /\ frame[r].visionEngine.provider = "gemini"

(***************************************************************************)
(* C29: normalizeEngineConfig is idempotent and repairs the text pair and  *)
(* the image pair independently: normalising its own result returns that   *)
(* result unchanged; a valid (textProvider, textModel) pair of the input is *)
(* kept whatever happens to the image pair, and a valid (imageProvider,    *)
(* imageModel) pair is kept whatever happens to the text pair; a pair that *)
(* is not valid becomes the default pair.                                  *)
(***************************************************************************)
TextPair(c)  == << c.textProvider, c.textModel >>
ImagePair(c) == << c.imageProvider, c.imageModel >>

C29_NormalizeIsIdempotentAndRepairsPairsIndependently ==
  Called("normalizeEngineConfig") =>
     LET given     == MergeConfig(lib.args.input)
         textOk    == isValidTextModel(given.textProvider, given.textModel)
         imageOk   == isValidImageModel(given.imageProvider, given.imageModel)
     IN  /\ normalizeEngineConfig(lib.result) = lib.result
         /\ TextPair(lib.result)  = (IF textOk  THEN TextPair(given)  ELSE TextPair(defaultConfig))
         /\ ImagePair(lib.result) = (IF imageOk THEN ImagePair(given) ELSE ImagePair(defaultConfig))

\* a valid non-default text pair kept while the image pair is reset, or a
\* valid non-default image pair kept while the text pair is reset
C29_Witness ==
  /\ Called("normalizeEngineConfig")
  /\ DOMAIN lib.args.input = ConfigFields
  /\ \/ /\ TextPair(lib.args.input) = << "gemini", "gemini-2.5-flash" >>
        /\ lib.args.input.imageModel = UnknownModel
        /\ TextPair(lib.result) = << "gemini", "gemini-2.5-flash" >>
        /\ ImagePair(lib.result) = ImagePair(defaultConfig)
     \/ /\ ImagePair(lib.args.input) = << "gemini", "gemini-2.5-flash-image" >>
        /\ lib.args.input.textProvider = UnknownProvider
        /\ ImagePair(lib.result) = << "gemini", "gemini-2.5-flash-image" >>
        /\ TextPair(lib.result) = TextPair(defaultConfig)

(***************************************************************************)
(* C30: provided every vendor call and every log-store operation           *)
(* eventually returns, every started POST request eventually returns an    *)
(* HTTP response, it returns exactly one (a response once given is never   *)
(* replaced), and after the response it issues no further vendor call and  *)
(* no further store write.                                                 *)
(***************************************************************************)
Responded(r) == Returned(r) /\ resp[r] # None

\* the store writes made for request r so far
WritesOf(r) ==
  IF HasRow(r) THEN << RowOf(r), ItemsOf(frame[r].requestLogId),
                       ItemCount(frame[r].requestLogId), updates[r] >>
               ELSE << updates[r] >>

\* a step that leaves the effects of a finished request as they are
QuietAfterTheEnd ==
  \A r \in Requests :
     /\ resp[r] # None => resp'[r] = resp[r]
     /\ Finished(r) =>
          /\ pc'[r] = pc[r]
          /\ fetches'[r] = fetches[r]
          /\ WritesOf(r)' = WritesOf(r)

C30_EveryRequestEventuallyReturnsOneResponse ==
  /\ \A r \in Requests : Started(r) ~> Responded(r)
  /\ [][QuietAfterTheEnd]_vars

\* what holds of every started request: it finishes, by a response or by
\* the handler's promise rejecting, and is quiet afterwards
C30_EveryRequestFinishesAndIsQuietAfterwards ==
  /\ \A r \in Requests : Started(r) ~> Finished(r)
  /\ \A r \in Requests : [] (Responded(r) => [] Responded(r))
  /\ [][QuietAfterTheEnd]_vars

====
